---------------------------- MODULE Spec2Model ----------------------------
(***************************************************************************)
(* konvertorMzdy: CSV cleaning (clean_csv_header.py) and CSV -> XML        *)
(* document assembly (create_xml_file.py).                                 *)
(*                                                                         *)
(* Representation.  A Python str is a sequence of characters; a character  *)
(* is a one-element TLA+ string for ASCII ("a", " ", ";") and the string   *)
(* "U+XXXX" of its code point otherwise (NBSP is "U+00A0").  A row is a    *)
(* sequence of cells, a table a sequence of rows.  Python indices are      *)
(* 0-based: every index the code computes (header_index, keep_indices,     *)
(* cinn_idx, end_index) has its Python value in the model, and r[i] of the *)
(* code is r[i + 1] here.  Python's None is the empty sequence <<>> of an  *)
(* optional value <<v>>.                                                   *)
(***************************************************************************)
EXTENDS Integers, Sequences, FiniteSets, TLC

(***************************************************************************)
(* Characters outside ASCII used by the program's literals                 *)
(***************************************************************************)
NBSP   == "U+00A0"
aAcute == "U+00E1"
AAcute == "U+00C1"
uAcute == "U+00FA"
UAcute == "U+00DA"
yAcute == "U+00FD"
YAcute == "U+00DD"
cCaron == "U+010D"
CCaron == "U+010C"

\* str.lower() on the characters of the model's alphabet; every other
\* character of the alphabet (digits, punctuation, lower case) is its own image.
LowerMap ==
    ("A" :> "a") @@ ("B" :> "b") @@ ("C" :> "c") @@ ("D" :> "d") @@ ("E" :> "e")
 @@ ("F" :> "f") @@ ("G" :> "g") @@ ("H" :> "h") @@ ("I" :> "i") @@ ("J" :> "j")
 @@ ("K" :> "k") @@ ("L" :> "l") @@ ("M" :> "m") @@ ("N" :> "n") @@ ("O" :> "o")
 @@ ("P" :> "p") @@ ("Q" :> "q") @@ ("R" :> "r") @@ ("S" :> "s") @@ ("T" :> "t")
 @@ ("U" :> "u") @@ ("V" :> "v") @@ ("W" :> "w") @@ ("X" :> "x") @@ ("Y" :> "y")
 @@ ("Z" :> "z") @@ (AAcute :> aAcute) @@ (UAcute :> uAcute)
 @@ (YAcute :> yAcute) @@ (CCaron :> cCaron)

lower_char(c) == IF c \in DOMAIN LowerMap THEN LowerMap[c] ELSE c

\* str.lower()
lower(s) == [k \in 1..Len(s) |-> lower_char(s[k])]

\* The characters str.strip() removes (str.isspace) in the model's alphabet.
Whitespace == {" ", NBSP}

RECURSIVE lstrip(_)
lstrip(s) == IF s # <<>> /\ Head(s) \in Whitespace THEN lstrip(Tail(s)) ELSE s

RECURSIVE rstrip(_)
rstrip(s) ==
    IF s # <<>> /\ s[Len(s)] \in Whitespace
    THEN rstrip(SubSeq(s, 1, Len(s) - 1))
    ELSE s

\* str.strip()
strip(s) == lstrip(rstrip(s))

\* s.replace(a, b) for one-character a and a string b
replace_char(s, a, b) ==
    LET RECURSIVE go(_)
        go(t) == IF t = <<>> THEN <<>>
                 ELSE (IF Head(t) = a THEN b ELSE <<Head(t)>>) \o go(Tail(t))
    IN go(s)

\* s.count(c) for a one-character c
count_char(s, c) == Cardinality({k \in 1..Len(s) : s[k] = c})

\* p in s  (Python substring test)
contains(s, p) ==
    \E k \in 0..(Len(s) - Len(p)) : SubSeq(s, k + 1, k + Len(p)) = p

\* s.startswith(p)
startswith(s, p) == Len(p) <= Len(s) /\ SubSeq(s, 1, Len(p)) = p

\* ";".join(row)
RECURSIVE join(_)
join(row) ==
    IF row = <<>> THEN <<>>
    ELSE IF Len(row) = 1 THEN row[1]
    ELSE row[1] \o <<";">> \o join(Tail(row))

(***************************************************************************)
(* String literals of the program                                          *)
(***************************************************************************)
S_Nazov    == <<"N", aAcute, "z", "o", "v">>
S_UcetMD   == <<UAcute, cCaron, "e", "t", " ", "M", "D">>
S_UcetDal  == <<UAcute, cCaron, "e", "t", " ", "D", "a", "l">>
S_Stred    == <<"S", "t", "r", "e", "d", ".">>
S_Zak      == <<"Z", aAcute, "k", ".">>
S_Cinn     == <<CCaron, "i", "n", "n", ".">>
S_Vypracoval == <<"V", "y", "p", "r", "a", "c", "o", "v", "a", "l", ":">>
S_vyplata  == <<"v", yAcute, "p", "l", "a", "t", "a", " ", "v", " ",
                "h", "o", "t", "o", "v", "o", "s", "t", "i">>

(***************************************************************************)
(* clean_csv_header.py: helpers                                            *)
(***************************************************************************)
clean_str(s) == strip(replace_char(s, NBSP, <<" ">>))

normalize(s) == lower(clean_str(s))


\* The outcome of a call: a returned value, or a raised exception.
Returned(v) == [raised |-> FALSE, value |-> v]
Raised(e)   == [raised |-> TRUE, error |-> e]

\* row[i] for a 0-based Python index i
cell(row, i) == row[i + 1]

\* rows[k:] for a 0-based k
slice_from(rows, k) == SubSeq(rows, k + 1, Len(rows))

\* rows[:k] for a 0-based k
slice_to(rows, k) == SubSeq(rows, 1, k)


(***************************************************************************)
(* find_header_index                                                       *)
(***************************************************************************)
primary_match(row) ==
    /\ row # <<>>
    /\ clean_str(cell(row, 0)) = S_Nazov
    /\ contains(join(row), S_UcetMD)
    /\ contains(join(row), S_UcetDal)

fallback_match(row) ==
    /\ contains(join(row), S_Nazov)
    /\ contains(join(row), S_UcetMD)
    /\ contains(join(row), S_UcetDal)

\* The first loop, from row i on: <<index>> of the first primary match, or <<>>
RECURSIVE scan_primary(_, _)
scan_primary(rows, i) ==
    IF i >= Len(rows) THEN <<>>
    ELSE IF primary_match(cell(rows, i)) THEN <<i>>
    ELSE scan_primary(rows, i + 1)

\* The second loop, from row i on
RECURSIVE scan_fallback(_, _)
scan_fallback(rows, i) ==
    IF i >= Len(rows) THEN <<>>
    ELSE IF fallback_match(cell(rows, i)) THEN <<i>>
    ELSE scan_fallback(rows, i + 1)

\* A faulty variant: the loose rule is tried before the strict one
find_header_index_fallback_first(rows) ==
    IF scan_fallback(rows, 0) # <<>> THEN Returned(scan_fallback(rows, 0)[1])
    ELSE IF scan_primary(rows, 0) # <<>> THEN Returned(scan_primary(rows, 0)[1])
    ELSE Raised("RuntimeError")

find_header_index(rows) ==
    IF scan_primary(rows, 0) # <<>> THEN Returned(scan_primary(rows, 0)[1])
    ELSE IF scan_fallback(rows, 0) # <<>> THEN Returned(scan_fallback(rows, 0)[1])
    ELSE Raised("RuntimeError")

is_empty_row(row) == ~ \E k \in 1..Len(row) : clean_str(row[k]) # <<>>

(***************************************************************************)
(* select_required_columns                                                 *)
(***************************************************************************)
\* wanted_patterns.values(), in the dict's order
wanted_patterns == <<
    {<<"n", aAcute, "z", "o", "v">>, <<"n", "a", "z", "o", "v">>},
    {<<uAcute, cCaron, "e", "t", " ", "m", "d">>,
     <<"u", "c", "e", "t", " ", "m", "d">>, <<"m", "d">>},
    {<<uAcute, cCaron, "e", "t", " ", "d", "a", "l">>,
     <<"u", "c", "e", "t", " ", "d", "a", "l">>, <<"d", "a", "l">>},
    {<<"s", "t", "r", "e", "d">>, <<"s", "t", "r", "e", "d", ".">>},
    {<<"z", aAcute, "k">>, <<"z", "a", "k">>,
     <<"z", aAcute, "k", ".">>, <<"z", "a", "k", ".">>},
    {<<cCaron, "i", "n", "n">>, <<"c", "i", "n", "n">>,
     <<cCaron, "i", "n", "n", ".">>, <<"c", "i", "n", "n", ".">>} >>

\* Whether header cell `name` (normalized) is kept: some pattern list has a
\* pattern occurring in it.
matches_wanted(name) ==
    \E c \in 1..Len(wanted_patterns) : \E p \in wanted_patterns[c] : contains(name, p)

\* keep_indices: the loop over enumerate(norm), from index idx on
RECURSIVE keep_indices_from(_, _)
keep_indices_from(header, idx) ==
    IF idx >= Len(header) THEN <<>>
    ELSE (IF matches_wanted(normalize(cell(header, idx))) THEN <<idx>> ELSE <<>>)
         \o keep_indices_from(header, idx + 1)

keep_indices_of(header) == keep_indices_from(header, 0)

\* A faulty variant: [r[i] for i in keep_indices if i < len(r)], a short row is not padded
RECURSIVE project_row_no_pad(_, _)
project_row_no_pad(r, keep) ==
    IF keep = <<>> THEN <<>>
    ELSE (IF Head(keep) < Len(r) THEN <<cell(r, Head(keep))>> ELSE <<>>)
         \o project_row_no_pad(r, Tail(keep))

\* A faulty variant: the kept indices are read one column to the right
project_row_off_by_one(r, keep) ==
    [k \in 1..Len(keep) |-> IF keep[k] + 1 < Len(r) THEN cell(r, keep[k] + 1) ELSE <<>>]

\* [(r[i] if i < len(r) else "") for i in keep_indices]
project_row(r, keep) ==
    [k \in 1..Len(keep) |-> IF keep[k] < Len(r) THEN cell(r, keep[k]) ELSE <<>>]

select_required_columns(rows) ==
    IF rows = <<>> THEN rows
    ELSE LET keep == keep_indices_of(rows[1])
         IN IF keep = <<>> THEN rows
            ELSE [k \in 1..Len(rows) |-> project_row(rows[k], keep)]

(***************************************************************************)
(* strip_spaces_in_numeric_cols                                            *)
(***************************************************************************)
target_patterns == {
    <<uAcute, cCaron, "e", "t", " ", "m", "d">>, <<"u", "c", "e", "t", " ", "m", "d">>,
    <<uAcute, cCaron, "e", "t", " ", "d", "a", "l">>, <<"u", "c", "e", "t", " ", "d", "a", "l">>,
    <<"s", "t", "r", "e", "d">>, <<"z", aAcute, "k">>, <<"z", "a", "k">>,
    <<cCaron, "i", "n", "n">>, <<"c", "i", "n", "n">> }

numeric_indices_of(header) ==
    {i \in 0..(Len(header) - 1) :
        \E p \in target_patterns : contains(normalize(cell(header, i)), p)}

\* new_row[i].replace(NBSP, " ").replace(" ", "")
remove_spaces(v) == replace_char(replace_char(v, NBSP, <<" ">>), " ", <<>>)

strip_spaces_in_numeric_cols(rows, header_names) ==
    IF rows = <<>> THEN rows
    ELSE LET numeric == numeric_indices_of(rows[1])
         IN [k \in 1..Len(rows) |->
                IF k = 1 THEN rows[1]
                ELSE [j \in 1..Len(rows[k]) |->
                        IF (j - 1) \in numeric THEN remove_spaces(rows[k][j])
                        ELSE rows[k][j]]]

(***************************************************************************)
(* Summary rows and the forward fill                                       *)
(***************************************************************************)
RECURSIVE scan_cinn(_, _)
scan_cinn(header_row, i) ==
    IF i >= Len(header_row) THEN <<>>
    ELSE IF \/ contains(normalize(cell(header_row, i)), <<cCaron, "i", "n", "n">>)
            \/ contains(normalize(cell(header_row, i)), <<"c", "i", "n", "n">>)
    THEN <<i>>
    ELSE scan_cinn(header_row, i + 1)

find_cinn_col_index(header_row) ==
    IF scan_cinn(header_row, 0) # <<>> THEN scan_cinn(header_row, 0)[1]
    ELSE IF header_row # <<>> THEN Len(header_row) - 1 ELSE 0

\* nonempty = [j for j, c in enumerate(row) if clean_str(c)]
nonempty_of(row) == {j \in 0..(Len(row) - 1) : clean_str(cell(row, j)) # <<>>}

\* A faulty variant: the non-empty cells need only lie within {0, cinn_idx}, column 0 among them
is_summary_variant1_subset(row, cinn_idx) ==
    0 \in nonempty_of(row) /\ nonempty_of(row) \subseteq {0, cinn_idx}

is_summary_variant1(row, cinn_idx) ==
    nonempty_of(row) # {} /\ nonempty_of(row) = {0, cinn_idx}

is_summary_variant2(row, cinn_idx) ==
    nonempty_of(row) # {} /\ nonempty_of(row) = {cinn_idx}

\* The state of the loop of forward_fill_from_summary before its first row
fill_start(rows) ==
    [out |-> <<rows[1]>>, current_group_name |-> <<>>, filled |-> 0,
     removed |-> 0, raised |-> FALSE]

\* A faulty variant: a Variant B row is not recognised and is handled as an ordinary row
fill_step_keeps_variant2(st, row, cinn_idx) ==
    IF st.raised THEN st
    ELSE IF is_summary_variant1(row, cinn_idx)
    THEN [st EXCEPT !.current_group_name = <<clean_str(cell(row, 0))>>,
                    !.removed = @ + 1]
    ELSE LET first_clean == IF row # <<>> THEN clean_str(cell(row, 0)) ELSE <<>>
             fill == first_clean = <<>> /\ st.current_group_name # <<>>
         IN IF fill /\ row = <<>> THEN [st EXCEPT !.raised = TRUE]
            ELSE [st EXCEPT
                    !.out = Append(@, IF fill
                                      THEN [row EXCEPT ![1] = st.current_group_name[1]]
                                      ELSE row),
                    !.filled = IF fill THEN @ + 1 ELSE @,
                    !.current_group_name = IF first_clean # <<>> THEN <<>> ELSE @]

\* A faulty variant: filling a blank name uses the pending name up
fill_step_consumes_name(st, row, cinn_idx) ==
    IF st.raised THEN st
    ELSE IF is_summary_variant1(row, cinn_idx)
    THEN [st EXCEPT !.current_group_name = <<clean_str(cell(row, 0))>>,
                    !.removed = @ + 1]
    ELSE IF is_summary_variant2(row, cinn_idx)
    THEN [st EXCEPT !.removed = @ + 1]
    ELSE LET first_clean == IF row # <<>> THEN clean_str(cell(row, 0)) ELSE <<>>
             fill == first_clean = <<>> /\ st.current_group_name # <<>>
         IN IF fill /\ row = <<>> THEN [st EXCEPT !.raised = TRUE]
            ELSE [st EXCEPT
                    !.out = Append(@, IF fill
                                      THEN [row EXCEPT ![1] = st.current_group_name[1]]
                                      ELSE row),
                    !.filled = IF fill THEN @ + 1 ELSE @,
                    !.current_group_name = <<>>]

\* A faulty variant: an emitted row is put right behind the header, before the
\* rows emitted earlier
fill_step_emits_first(st, row, cinn_idx) ==
    IF st.raised THEN st
    ELSE IF is_summary_variant1(row, cinn_idx)
    THEN [st EXCEPT !.current_group_name = <<clean_str(cell(row, 0))>>,
                    !.removed = @ + 1]
    ELSE IF is_summary_variant2(row, cinn_idx)
    THEN [st EXCEPT !.removed = @ + 1]
    ELSE LET first_clean == IF row # <<>> THEN clean_str(cell(row, 0)) ELSE <<>>
             fill == first_clean = <<>> /\ st.current_group_name # <<>>
         IN IF fill /\ row = <<>> THEN [st EXCEPT !.raised = TRUE]
            ELSE [st EXCEPT
                    !.out = <<Head(@)>>
                            \o <<IF fill THEN [row EXCEPT ![1] = st.current_group_name[1]]
                                 ELSE row>>
                            \o Tail(@),
                    !.filled = IF fill THEN @ + 1 ELSE @,
                    !.current_group_name = IF first_clean # <<>> THEN <<>> ELSE @]

\* The row of the input list after one iteration: row = list(row) makes the
\* name go into a copy, so the list's own row is left as it was
input_row_after(st, row, cinn_idx) == row

\* One iteration of the loop of forward_fill_from_summary on `row`.
\* row[0] = current_group_name on an empty row raises IndexError.
fill_step(st, row, cinn_idx) ==
    IF st.raised THEN st
    ELSE IF is_summary_variant1(row, cinn_idx)
    THEN [st EXCEPT !.current_group_name = <<clean_str(cell(row, 0))>>,
                    !.removed = @ + 1]
    ELSE IF is_summary_variant2(row, cinn_idx)
    THEN [st EXCEPT !.removed = @ + 1]
    ELSE LET first_clean == IF row # <<>> THEN clean_str(cell(row, 0)) ELSE <<>>
             fill == first_clean = <<>> /\ st.current_group_name # <<>>
         IN IF fill /\ row = <<>> THEN [st EXCEPT !.raised = TRUE]
            ELSE [st EXCEPT
                    !.out = Append(@, IF fill
                                      THEN [row EXCEPT ![1] = st.current_group_name[1]]
                                      ELSE row),
                    !.filled = IF fill THEN @ + 1 ELSE @,
                    !.current_group_name = IF first_clean # <<>> THEN <<>> ELSE @]

RECURSIVE fill_loop(_, _, _, _)
fill_loop(st, rows, k, cinn_idx) ==
    IF k > Len(rows) THEN st
    ELSE fill_loop(fill_step(st, rows[k], cinn_idx), rows, k + 1, cinn_idx)

\* Returns <<out, filled, removed>>
forward_fill_from_summary(rows, cinn_idx) ==
    IF rows = <<>> THEN Returned(<<rows, 0, 0>>)
    ELSE LET st == fill_loop(fill_start(rows), rows, 2, cinn_idx)
         IN IF st.raised THEN Raised("IndexError")
            ELSE Returned(<<st.out, st.filled, st.removed>>)

(***************************************************************************)
(* Parts of clean_csv                                                      *)
(***************************************************************************)
\* Step 4: [row for row in clean_rows if not is_empty_row(row)]
RECURSIVE drop_empty_rows(_)
drop_empty_rows(rs) ==
    IF rs = <<>> THEN <<>>
    ELSE (IF is_empty_row(Head(rs)) THEN <<>> ELSE <<Head(rs)>>)
         \o drop_empty_rows(Tail(rs))

\* Step 5, the loop from row i on: <<end_index>> or <<>> (None)
RECURSIVE find_end_index(_, _)
find_end_index(rs, i) ==
    IF i >= Len(rs) THEN <<>>
    ELSE IF startswith(clean_str(IF cell(rs, i) # <<>> THEN cell(cell(rs, i), 0) ELSE <<>>),
                       S_Vypracoval)
    THEN <<i>>
    ELSE find_end_index(rs, i + 1)

\* A faulty variant: the marker row itself is kept
truncate_trailer_keeps_marker(rs) ==
    IF find_end_index(rs, 0) # <<>> THEN slice_to(rs, find_end_index(rs, 0)[1] + 1) ELSE rs

\* Step 5: clean_rows[:end_index] when a marker row was found
truncate_trailer(rs) ==
    IF find_end_index(rs, 0) # <<>> THEN slice_to(rs, find_end_index(rs, 0)[1]) ELSE rs

\* Step 7: the last row is dropped when it is still a summary row
drops_last(rs, cinn) ==
    /\ Len(rs) > 1
    /\ (is_summary_variant1(rs[Len(rs)], cinn) \/ is_summary_variant2(rs[Len(rs)], cinn))

\* Step 7b: name_idx = 0
name_idx == 0

is_hotovost(row) ==
    Len(row) > name_idx /\ lower(clean_str(cell(row, name_idx))) = S_vyplata

RECURSIVE drop_hotovost(_)
drop_hotovost(rs) ==
    IF rs = <<>> THEN <<>>
    ELSE (IF is_hotovost(Head(rs)) THEN <<>> ELSE <<Head(rs)>>)
         \o drop_hotovost(Tail(rs))

(***************************************************************************)
(* The csv module as the scripts use it: a file written at ';', the        *)
(* dialect csv.Sniffer finds for it, and csv.reader on its lines.          *)
(* The cells of the model hold no quote character, no ';' and no line      *)
(* break, so the writer quotes nothing and the reader meets no quote; the  *)
(* files are shorter than the 4096 characters the sniffer is given. A file *)
(* is its lines and whether they end in "\r\n" (crlf) or in "\n".          *)
(***************************************************************************)
\* The lines of the file that holds the rows at ';': csv.writer(f,
\* delimiter=';').writerows(rows), and equally a file that csv.reader(f,
\* delimiter=';') reads as rows
lines_of(rows) == [i \in 1..Len(rows) |-> join(rows[i])]

\* delimiters=[",", ";", "\t", "|"]
sniff_delimiters == {",", ";", "\t", "|"}

\* csv.Sniffer.preferred
preferred == <<",", "\t", ";", " ", ":">>

\* data = list(filter(None, data.split('\n'))) on the text of the file, which
\* both readers decode from the bytes of the file, line ends untouched: each
\* line of a crlf file keeps its "\r", so an empty line of it stays in data,
\* while the empty lines of another file are left out
RECURSIVE sniff_data(_, _)
sniff_data(lines, crlf) ==
    IF lines = <<>> THEN <<>>
    ELSE (IF crlf THEN <<Head(lines) \o <<"\r">>>>
          ELSE IF Head(lines) = <<>> THEN <<>> ELSE <<Head(lines)>>)
         \o sniff_data(Tail(lines), crlf)

\* modes[char] over the first n lines of data: the first frequency, in the
\* order of the lines, that the most lines have, and the number of lines
\* having it less the number of lines having another
mode_of(data, n, char) ==
    LET freq == [i \in 1..n |-> count_char(data[i], char)]
        having == [i \in 1..n |-> Cardinality({j \in 1..n : freq[j] = freq[i]})]
        first == CHOOSE i \in 1..n :
                    /\ \A j \in 1..n : having[j] <= having[i]
                    /\ \A j \in 1..(i - 1) : having[j] < having[i]
    IN <<freq[first], 2 * having[first] - n>>

\* modes over the first n lines of data, for the characters that may be the
\* delimiter
modes_of(data, n) == [char \in sniff_delimiters |-> mode_of(data, n, char)]

\* The characters that enter delims at the consistency 1.0 - k/100, total
\* being the n lines analysed so far
delims_at(modes, n, k) ==
    {char \in DOMAIN modes :
        modes[char][1] > 0 /\ modes[char][2] > 0 /\ 100 * modes[char][2] >= (100 - k) * n}

\* The while loop over consistency, from 1.0 down in steps of 0.01 while it is
\* at least the threshold 0.9 (ten rounds, k = 0..9), until delims is not empty
build_delims(modes, n) ==
    LET rounds == {k \in 0..9 : delims_at(modes, n, k) # {}}
    IN IF rounds = {} THEN {}
       ELSE delims_at(modes, n, CHOOSE k \in rounds : \A j \in rounds : k <= j)

\* The first of preferred that is in delims
RECURSIVE first_preferred(_, _)
first_preferred(delims, i) ==
    IF preferred[i] \in delims THEN preferred[i] ELSE first_preferred(delims, i + 1)

\* skipinitialspace = (data[0].count(delim) == data[0].count("%c " % delim))
skipinitialspace_of(data, delim) ==
    count_char(data[1], delim)
        = Cardinality({i \in 1..(Len(data[1]) - 1) :
                          data[1][i] = delim /\ data[1][i + 1] = " "})

\* Sniffer._guess_delimiter from the chunk that ends at line 10 * iteration:
\* <<delimiter, skipinitialspace>>, or <<>> for ('', 0). One character in
\* delims is returned at once; several stay as they are through the later
\* chunks and the preferred list decides; none lets the next chunk in.
RECURSIVE guess_delimiter(_, _)
guess_delimiter(data, iteration) ==
    IF 10 * (iteration - 1) >= Len(data) THEN <<>>
    ELSE LET n == IF 10 * iteration < Len(data) THEN 10 * iteration ELSE Len(data)
             delims == build_delims(modes_of(data, n), n)
         IN IF delims = {} THEN guess_delimiter(data, iteration + 1)
            ELSE LET delim == IF Cardinality(delims) = 1
                              THEN CHOOSE d \in delims : TRUE
                              ELSE first_preferred(delims, 1)
                 IN <<delim, skipinitialspace_of(data, delim)>>

\* The dialect the two readers take for a file: csv.Sniffer().sniff(sample,
\* delimiters), and the class Simple with the given delimiter when the sniffer
\* raises, which it does when it finds no delimiter
sniff_dialect(lines, crlf, simple_delimiter) ==
    LET guess == guess_delimiter(sniff_data(lines, crlf), 1)
    IN IF guess = <<>>
       THEN [delimiter |-> simple_delimiter, skipinitialspace |-> TRUE]
       ELSE [delimiter |-> guess[1], skipinitialspace |-> guess[2]]

\* The spaces csv.reader skips at the start of a field under skipinitialspace
RECURSIVE skip_spaces(_)
skip_spaces(s) == IF s # <<>> /\ Head(s) = " " THEN skip_spaces(Tail(s)) ELSE s

\* line.split(delimiter): the fields of a line that is not empty
RECURSIVE split_at(_, _)
split_at(line, delimiter) ==
    IF \A k \in 1..Len(line) : line[k] # delimiter THEN <<line>>
    ELSE LET k == CHOOSE k \in 1..Len(line) :
                      line[k] = delimiter /\ \A j \in 1..(k - 1) : line[j] # delimiter
         IN <<SubSeq(line, 1, k - 1)>> \o split_at(SubSeq(line, k + 1, Len(line)), delimiter)

\* One row of csv.reader(lines, dialect): [] for an empty line, else the fields
reader_row(line, dialect) ==
    IF line = <<>> THEN <<>>
    ELSE LET fields == split_at(line, dialect.delimiter)
         IN [i \in 1..Len(fields) |->
                IF dialect.skipinitialspace THEN skip_spaces(fields[i]) ELSE fields[i]]

\* list(csv.reader(lines, dialect))
reader_rows(lines, dialect) == [i \in 1..Len(lines) |-> reader_row(lines[i], dialect)]

\* The file of the given rows as the converter reads it: read_csv without
\* --delimiter takes the sniffed dialect, or ',' when the sniffer raises
sniffed_table(rows, crlf) ==
    reader_rows(lines_of(rows), sniff_dialect(lines_of(rows), crlf, ","))

(***************************************************************************)
(* create_xml_file.py                                                      *)
(***************************************************************************)
DOC_ATTRS == <<"cislo_ud", "datum_ud", "mandant_id", "druh_ud", "typ_ud", "text_ud">>

\* main: the option strings of the ArgumentParser: -h and --help, which argparse
\* adds, and those of the add_argument calls
option_strings == {
    <<"-", "h">>,
    <<"-", "-", "h", "e", "l", "p">>,
    <<"-", "-", "d", "e", "l", "i", "m", "i", "t", "e", "r">>,
    <<"-", "-", "k", "e", "e", "p", "-", "e", "m", "p", "t", "y">>,
    <<"-", "-", "n", "o", "-", "i", "n", "t", "e", "r", "a", "c", "t", "i", "v", "e">>,
    <<"-", "-", "c", "i", "s", "l", "o", "_", "u", "d">>,
    <<"-", "-", "d", "a", "t", "u", "m", "_", "u", "d">>,
    <<"-", "-", "m", "a", "n", "d", "a", "n", "t", "_", "i", "d">>,
    <<"-", "-", "d", "r", "u", "h", "_", "u", "d">>,
    <<"-", "-", "t", "y", "p", "_", "u", "d">>,
    <<"-", "-", "t", "e", "x", "t", "_", "u", "d">> }

\* argparse's pattern for a negative number: '^-\d+$|^-\d*\.\d+$'
negative_number(arg) ==
    LET digit(c) == c \in {"0", "1", "2", "3", "4", "5", "6", "7", "8", "9"}
    IN /\ Len(arg) >= 2
       /\ arg[1] = "-"
       /\ \/ \A i \in 2..Len(arg) : digit(arg[i])
          \/ \E d \in 2..(Len(arg) - 1) :
                /\ arg[d] = "."
                /\ \A i \in 2..Len(arg) : i # d => digit(arg[i])

\* The part of arg before its first "=", arg itself without one
before_equals(arg) ==
    IF count_char(arg, "=") = 0 THEN arg
    ELSE SubSeq(arg, 1, (CHOOSE i \in 1..Len(arg) :
                            arg[i] = "=" /\ \A j \in 1..(i - 1) : arg[j] # "=") - 1)

\* argparse's _get_option_tuples is not empty: arg, of two characters or more
\* and beginning with "-", abbreviates a long option or begins with a short one
abbreviates_option(arg) ==
    IF arg[2] = "-"
    THEN \E o \in option_strings : startswith(o, before_equals(arg))
    ELSE \E o \in option_strings : o = SubSeq(arg, 1, 2) \/ startswith(o, arg)

\* parse_args takes the argument string arg for an option string, not for the
\* value of the option before it (argparse's _parse_optional, and "--")
taken_for_option(arg) ==
    IF arg = <<>> THEN FALSE
    ELSE IF arg[1] # "-" THEN FALSE
    ELSE IF arg \in option_strings THEN TRUE
    ELSE IF Len(arg) = 1 THEN FALSE
    ELSE IF before_equals(arg) \in option_strings THEN TRUE
    ELSE IF abbreviates_option(arg) THEN TRUE
    ELSE IF negative_number(arg) THEN FALSE
    ELSE IF count_char(arg, " ") > 0 THEN FALSE
    ELSE TRUE

\* ap.parse_args on "--k value" for each k of DOC_ATTRS: an option whose value
\* is taken for an option string has no argument, and the parser exits with
\* code 2; but for that every value is the option's
parse_args_exits(values) ==
    \E n \in 1..Len(DOC_ATTRS) : taken_for_option(values[DOC_ATTRS[n]])

ORDER == <<"suma", "ucet", "strana", "os", "eo", "text_pud">>

\* The keys of CSV_HEADERS, in the dict's order
COL_KEYS == <<"nazov", "ucet_md", "ucet_dal", "stred", "zak", "cinn">>

CSV_HEADERS ==
    [k \in {COL_KEYS[n] : n \in 1..Len(COL_KEYS)} |->
        CASE k = "nazov"    -> S_Nazov
          [] k = "ucet_md"  -> S_UcetMD
          [] k = "ucet_dal" -> S_UcetDal
          [] k = "stred"    -> S_Stred
          [] k = "zak"      -> S_Zak
          [] k = "cinn"     -> S_Cinn]

\* v or "" for an optional string: None (<<>>) and <<"">> give "", <<s>> gives s
or_empty(v) == IF v = <<>> THEN <<>> ELSE v[1]

\* unicodedata.normalize("NFKD", c).encode("ascii", "ignore") on one character
\* of the model's alphabet: an accented letter leaves its base letter in the
\* same case, the non-breaking space an ordinary space
ascii_fold(c) ==
    CASE c = aAcute -> <<"a">>
      [] c = uAcute -> <<"u">>
      [] c = yAcute -> <<"y">>
      [] c = cCaron -> <<"c">>
      [] c = AAcute -> <<"A">>
      [] c = UAcute -> <<"U">>
      [] c = YAcute -> <<"Y">>
      [] c = CCaron -> <<"C">>
      [] c = NBSP   -> <<" ">>
      [] OTHER -> <<c>>

RECURSIVE ascii_fold_str(_)
ascii_fold_str(s) ==
    IF s = <<>> THEN <<>> ELSE ascii_fold(Head(s)) \o ascii_fold_str(Tail(s))

normalize_header(h) == ascii_fold_str(lower(strip(h)))

\* by_norm = {normalize_header(h): h for h in headers}: a later header replaces
\* an earlier one of the same normalized name
by_norm_of(headers) ==
    LET norm == [k \in 1..Len(headers) |-> normalize_header(headers[k])]
    IN [n \in {norm[k] : k \in 1..Len(headers)} |->
           headers[CHOOSE k \in 1..Len(headers) :
                       /\ norm[k] = n
                       /\ \A j \in 1..Len(headers) : norm[j] = n => j <= k]]

needed_norm == [k \in DOMAIN CSV_HEADERS |-> normalize_header(CSV_HEADERS[k])]

\* missing = [k for k, n in needed_norm.items() if n not in by_norm], from key i on
RECURSIVE missing_from(_, _)
missing_from(by_norm, i) ==
    IF i > Len(COL_KEYS) THEN <<>>
    ELSE (IF needed_norm[COL_KEYS[i]] \in DOMAIN by_norm THEN <<>>
          ELSE <<COL_KEYS[i]>>)
         \o missing_from(by_norm, i + 1)

\* Returns cols, or exits naming the missing columns
ensure_required_columns(headers) ==
    LET by_norm == by_norm_of(headers)
        missing == missing_from(by_norm, 1)
    IN IF missing # <<>>
       THEN [raised |-> TRUE, error |-> "SystemExit",
             missing |-> [i \in 1..Len(missing) |-> CSV_HEADERS[missing[i]]]]
       ELSE Returned([k \in DOMAIN CSV_HEADERS |-> by_norm[needed_norm[k]]])

\* collect_doc_attributes: with no_interactive the values of the command line
\* (None when not given), else the values typed at the prompts, stripped
collect_doc_attributes(no_interactive, values) ==
    IF no_interactive
    THEN IF \E n \in 1..Len(DOC_ATTRS) : or_empty(values[DOC_ATTRS[n]]) = <<>>
         THEN Raised("SystemExit")
         ELSE Returned([k \in DOMAIN values |-> values[k][1]])
    ELSE Returned([k \in DOMAIN values |-> strip(or_empty(values[k]))])

\* A faulty variant: every comma becomes a period when the value has no period
to_amount_every_comma(v) ==
    LET stripped == replace_char(strip(or_empty(v)), " ", <<>>)
    IN IF count_char(stripped, ",") >= 1 /\ count_char(stripped, ".") = 0
       THEN replace_char(stripped, ",", <<".">>)
       ELSE stripped

to_amount(v) ==
    LET stripped == replace_char(strip(or_empty(v)), " ", <<>>)
    IN IF count_char(stripped, ",") = 1 /\ count_char(stripped, ".") = 0
       THEN replace_char(stripped, ",", <<".">>)
       ELSE stripped

\* The key None of csv.DictReader (restkey). A field name is a sequence of
\* single characters, so this key differs from every field name, "" included.
restkey == <<"None">>

\* csv.DictReader: the row as a dict. dict(zip(fieldnames, row)) pairs the
\* field names with the cells up to the shorter of the two (a later field of
\* the same name replaces an earlier one); a row longer than the field names
\* then gets its remaining cells as a list under restkey, a shorter one gets
\* None (restval) under each field name it lacks. The value under a field
\* name is <<cell>> or <<>> for None, the value under restkey is <<the list
\* of the remaining cells>>.
dict_row(headers, r) ==
    LET lf == Len(headers)
        lr == Len(r)
        names == {headers[k] : k \in 1..lf}
        keys == IF lr > lf THEN names \cup {restkey} ELSE names
    IN [h \in keys |->
          IF h = restkey
          THEN <<SubSeq(r, lf + 1, lr)>>
          ELSE LET k == CHOOSE k \in 1..lf :
                          headers[k] = h /\ \A j \in 1..lf : headers[j] = h => j <= k
               IN IF k <= lr THEN <<r[k]>> ELSE <<>>]

\* r.get(key, "")
dict_get(r, key) == IF key \in DOMAIN r THEN r[key] ELSE <<<<>>>>

\* read_csv on the parsed lines of the file: <<rows, headers>>; DictReader
\* skips the rows that are []
RECURSIVE dict_rows(_, _)
dict_rows(headers, rs) ==
    IF rs = <<>> THEN <<>>
    ELSE (IF Head(rs) = <<>> THEN <<>> ELSE <<dict_row(headers, Head(rs))>>)
         \o dict_rows(headers, Tail(rs))

read_csv(table) ==
    IF table = <<>> THEN <<<<>>, <<>>>>
    ELSE <<dict_rows(table[1], Tail(table)), table[1]>>

\* m_attrs of one row
m_attrs_of(r, cols) ==
    [text_pud |-> strip(or_empty(dict_get(r, cols["nazov"]))),
     os       |-> strip(or_empty(dict_get(r, cols["stred"]))),
     eo       |-> strip(or_empty(dict_get(r, cols["zak"]))),
     suma     |-> to_amount(dict_get(r, cols["cinn"])),
     ucet     |-> strip(or_empty(dict_get(r, cols["ucet_md"]))),
     strana   |-> <<"M">>]

\* d_attrs of one row
d_attrs_of(r, cols) ==
    [text_pud |-> strip(or_empty(dict_get(r, cols["nazov"]))),
     os       |-> strip(or_empty(dict_get(r, cols["stred"]))),
     eo       |-> strip(or_empty(dict_get(r, cols["zak"]))),
     suma     |-> to_amount(dict_get(r, cols["cinn"])),
     ucet     |-> strip(or_empty(dict_get(r, cols["ucet_dal"]))),
     strana   |-> <<"D">>]

\* A faulty variant: an empty value is never set, keep_empty or not
RECURSIVE set_attrs_drops_empty(_, _, _)
set_attrs_drops_empty(attrs, order, keep_empty) ==
    IF order = <<>> THEN <<>>
    ELSE (IF strip(attrs[Head(order)]) = <<>> THEN <<>>
          ELSE <<<<Head(order), strip(attrs[Head(order)])>>>>)
         \o set_attrs_drops_empty(attrs, Tail(order), keep_empty)

\* The attributes set on an element, in order: <<key, value>> for each key of
\* `order` whose stripped value is not empty, or for every key with keep_empty
RECURSIVE set_attrs(_, _, _)
set_attrs(attrs, order, keep_empty) ==
    IF order = <<>> THEN <<>>
    ELSE (IF strip(attrs[Head(order)]) = <<>> /\ ~ keep_empty THEN <<>>
          ELSE <<<<Head(order), strip(attrs[Head(order)])>>>>)
         \o set_attrs(attrs, Tail(order), keep_empty)

\* write_item: the polozka_ud element appended to the document
write_item(attrs, keep_empty) == set_attrs(attrs, ORDER, keep_empty)

\* The loop over rows: m_buffer
m_buffer_of(rs, cols) == [i \in 1..Len(rs) |-> m_attrs_of(rs[i], cols)]

\* The loop over rows: d_buffer
d_buffer_of(rs, cols) == [i \in 1..Len(rs) |-> d_attrs_of(rs[i], cols)]

\* A faulty variant: it writes the two items of each row next to each other
RECURSIVE items_of_interleaved(_, _, _)
items_of_interleaved(rs, cols, keep_empty) ==
    IF rs = <<>> THEN <<>>
    ELSE <<write_item(m_attrs_of(Head(rs), cols), keep_empty),
           write_item(d_attrs_of(Head(rs), cols), keep_empty)>>
         \o items_of_interleaved(Tail(rs), cols, keep_empty)

\* The children of uctovny_doklad: the items of m_buffer, then those of d_buffer
items_of(rs, cols, keep_empty) ==
    LET m_buffer == m_buffer_of(rs, cols)
        d_buffer == d_buffer_of(rs, cols)
    IN [i \in 1..Len(m_buffer) |-> write_item(m_buffer[i], keep_empty)]
       \o [i \in 1..Len(d_buffer) |-> write_item(d_buffer[i], keep_empty)]

\* build_xml: the uctovny_doklad element, its attributes and its children
build_xml(doc_attrs, rs, cols, keep_empty) ==
    [attrs |-> set_attrs(doc_attrs, DOC_ATTRS, keep_empty),
     items |-> items_of(rs, cols, keep_empty)]

(***************************************************************************)
(* konvertor_app.py                                                        *)
(***************************************************************************)
REQUIRED_HEADERS == <<S_Nazov, S_UcetMD, S_UcetDal, S_Stred, S_Zak, S_Cinn>>

\* needed = {normalize_header(h) for h in REQUIRED_HEADERS}
needed_headers == {normalize_header(REQUIRED_HEADERS[k]) : k \in 1..Len(REQUIRED_HEADERS)}

\* seen = {normalize_header(c) for c in row}
seen_in(row) == {normalize_header(row[k]) : k \in 1..Len(row)}

\* The loop of try_find_header_and_write_subset from line i (0-based) on:
\* <<i>> for the first line that holds all the required headers, <<>> for none
RECURSIVE scan_required(_, _)
scan_required(lines, i) ==
    IF i >= Len(lines) THEN <<>>
    ELSE IF needed_headers \subseteq seen_in(cell(lines, i)) THEN <<i>>
    ELSE scan_required(lines, i + 1)

\* try_find_header_and_write_subset on the file src, given as its rows at ';'
\* and its line ends: the file is read with the dialect sniffed for it, or at
\* ';' when the sniffer raises; [ok, written], written being <<the lines of
\* src from the header on>>, again as rows at ';', when ok. The lines are
\* written joined by "\n", which write_text leaves as it is where os.linesep
\* is "\n".
try_find_header_and_write_subset(src, crlf) ==
    LET lines == lines_of(src)
        dialect == sniff_dialect(lines, crlf, ";")
        header_idx == scan_required(reader_rows(lines, dialect), 0)
    IN IF header_idx = <<>>
       THEN [ok |-> FALSE, written |-> <<>>]
       ELSE [ok |-> TRUE, written |-> <<slice_from(src, header_idx[1])>>]

\* How a script run as __main__ ends: it runs to its end, it raises SystemExit
\* with an integer code or with a message, or it raises another exception
Ended          == [kind |-> "ended"]
ExitCode(c)    == [kind |-> "exit_code", code |-> c]
ExitMessage    == [kind |-> "exit_message"]
Failed(e)      == [kind |-> "failed", error |-> e]

\* A faulty variant: every exception of the script is caught and gives 1
run_script_catches_all(ending) ==
    CASE ending.kind = "ended"        -> Returned(0)
      [] ending.kind = "exit_code"    -> Returned(ending.code)
      [] ending.kind = "exit_message" -> Returned(1)
      [] ending.kind = "failed"       -> Returned(1)

\* run_script: 0 when the script runs to its end, int(e.code) on SystemExit,
\* which raises ValueError for a message; another exception is not caught
run_script(ending) ==
    CASE ending.kind = "ended"        -> Returned(0)
      [] ending.kind = "exit_code"    -> Returned(ending.code)
      [] ending.kind = "exit_message" -> Raised("ValueError")
      [] ending.kind = "failed"       -> Raised(ending.error)

(***************************************************************************)
(* State                                                                   *)
(***************************************************************************)
VARIABLES
    rows,               \* clean_csv: the table read from the input file
    pc,                 \* position in the run
    clean_rows,         \* clean_csv: the table being cleaned
    header_index,       \* clean_csv: result of find_header_index
    end_index,          \* clean_csv: <<i>> or <<>> (None)
    cinn_idx,           \* clean_csv: result of find_cinn_col_index
    pos,                \* forward_fill_from_summary: 0-based index of the next row
    out,                \* forward_fill_from_summary: rows emitted so far
    current_group_name, \* forward_fill_from_summary: <<name>> or <<>> (None)
    filled,             \* forward_fill_from_summary
    removed,            \* forward_fill_from_summary
    filled_count,       \* clean_csv
    removed_summaries,  \* clean_csv
    removed_last,       \* clean_csv
    removed_hotovost,   \* clean_csv
    output,             \* the output file: <<table>> once written, <<>> before
    xml_table,          \* create_xml_file: the parsed lines of the input CSV
    xml_values,         \* create_xml_file: the attribute values given (command line or prompts)
    no_interactive,     \* create_xml_file: --no-interactive
    keep_empty,         \* create_xml_file: --keep-empty
    xml_pc,             \* create_xml_file: position in main
    doc_attrs,          \* main: the collected document attributes
    xml_rows,           \* main: rows, the dicts of read_csv
    xml_headers,        \* main: headers
    cols,               \* main: result of ensure_required_columns
    root,               \* main: <<element>> once built, <<>> before
    xml_output,         \* the output XML file: <<element>> once written, <<>> before
    xml_error,          \* main: <<>>, or <<[kind, missing]>> once SystemExit is raised
    amount_in,          \* to_amount: the argument v, <<>> for None, <<s>> for a string
    amount_out,         \* to_amount: the value returned
    amount_pc,          \* to_amount: "call" before the call, "returned" after it
    csv_path,           \* App: <<>> while no file is chosen, else <<rows of the chosen file at ';'>>
    csv_crlf,           \* App: the lines of the chosen file end in "\r\n", not in "\n"
    doc_vars,           \* App: the six entry fields
    cleaner_exists,     \* App: clean_csv_header.py is found beside the application
    converter_exists,   \* App: create_xml_file.py is found beside the application
    save_as,            \* run_conversion: whether the save dialog of this call gave a name
    ran_cleaner,        \* run_conversion: ran_cleaner
    cleaned_csv,        \* run_conversion: <<>> while cleaned.csv is missing or empty, else <<its rows at ';'>>; missing again once the with block is left
    out_file,           \* what this call of run_conversion wrote to the file named in the save dialog: <<element>>, <<>> before
    shown,              \* the message box of this call: <<>>, <<"warning">>, <<"error">>, <<"unexpected">>, <<"info">>
    app_pc              \* App: "mainloop" between the callbacks, else the position in run_conversion

csv_vars == <<rows, pc, clean_rows, header_index, end_index, cinn_idx, pos, out,
              current_group_name, filled, removed, filled_count,
              removed_summaries, removed_last, removed_hotovost, output>>

xml_vars == <<xml_table, xml_values, no_interactive, keep_empty, xml_pc, doc_attrs,
              xml_rows, xml_headers, cols, root, xml_output, xml_error>>

amount_vars == <<amount_in, amount_out, amount_pc>>

app_vars == <<csv_path, csv_crlf, doc_vars, cleaner_exists, converter_exists, save_as, ran_cleaner,
              cleaned_csv, out_file, shown, app_pc>>

aux_vars == <<amount_vars, app_vars>>

vars == <<csv_vars, xml_vars, aux_vars>>

\* to_amount is not being called
AmountIdle ==
    /\ amount_in = <<>>
    /\ amount_out = <<>>
    /\ amount_pc = "idle"

\* The application is not running
AppIdle ==
    /\ csv_path = <<>>
    /\ csv_crlf = FALSE
    /\ doc_vars = <<>>
    /\ cleaner_exists = FALSE
    /\ converter_exists = FALSE
    /\ save_as = FALSE
    /\ ran_cleaner = FALSE
    /\ cleaned_csv = <<>>
    /\ out_file = <<>>
    /\ shown = <<>>
    /\ app_pc = "idle"

AuxIdle == AmountIdle /\ AppIdle

\* create_xml_file is not running
XmlIdle ==
    /\ xml_table = <<>>
    /\ xml_values = <<>>
    /\ no_interactive = FALSE
    /\ keep_empty = FALSE
    /\ xml_pc = "idle"
    /\ doc_attrs = <<>>
    /\ xml_rows = <<>>
    /\ xml_headers = <<>>
    /\ cols = <<>>
    /\ root = <<>>
    /\ xml_output = <<>>
    /\ xml_error = <<>>

\* clean_csv is not running
CsvIdle ==
    /\ rows = <<>>
    /\ pc = "idle"
    /\ clean_rows = <<>>
    /\ header_index = 0
    /\ end_index = <<>>
    /\ cinn_idx = 0
    /\ pos = 0
    /\ out = <<>>
    /\ current_group_name = <<>>
    /\ filled = 0
    /\ removed = 0
    /\ filled_count = 0
    /\ removed_summaries = 0
    /\ removed_last = FALSE
    /\ removed_hotovost = 0
    /\ output = <<>>

(***************************************************************************)
(* Input tables                                                            *)
(***************************************************************************)
MaxRows == 3

E == <<>>

H_Plain    == <<S_Nazov, S_UcetMD, S_UcetDal, S_Cinn>>
H_Extra    == <<S_Nazov, <<"P", "o", "z", "n">>, S_UcetMD, S_UcetDal, S_Stred>>
H_Fallback == <<S_UcetMD, S_Nazov, S_UcetDal, S_Cinn>>
H_Short    == <<S_Nazov, <<"M", "D">>, S_UcetMD, S_UcetDal>>
H_Trailer  == <<S_Vypracoval \o <<" ">> \o S_Nazov, S_UcetMD, S_UcetDal>>
R_Junk     == <<<<"X">>, E>>

DataRows == {
    << <<"T", "O", "T", "A", "L", "_", "A">>, E, E, E >>,
    << E, <<"1">>, <<"2">>, <<"3">> >>,
    << <<"T", "O", "T", "A", "L", "_", "A">>, E, E, <<"5">> >>,
    << E, E, E, <<" ", "7">> >>,
    << <<"A", " ", "B">>, <<"1", " ", "2">>, <<"3", NBSP, "4">>, <<"5">> >>,
    << <<"V", yAcute, "p", "l", "a", "t", "a", " ", "v", " ",
         "h", "o", "t", "o", "v", "o", "s", "t", "i">>, E, E, E >>,
    << <<"2", "2", "1">>,
       <<" ", "V", YAcute, "P", "L", "A", "T", "A", " ", "V", " ",
         "H", "O", "T", "O", "V", "O", "S", "T", "I">>, <<"5", "2", "1">>, <<"1">> >>,
    << <<" ", "V", "y", "p", "r", "a", "c", "o", "v", "a", "l", ":", " ", "X">>, E, E, E >>,
    << <<" ">>, <<NBSP>>, E >>,
    << <<"B">>, <<"1">>, <<"2">>, <<"3">>, <<"4">> >> }

\* All sequences of at most n data rows
RECURSIVE DataSeqs(_)
DataSeqs(n) ==
    IF n = 0 THEN {<<>>}
    ELSE DataSeqs(n - 1)
         \cup {Append(d, r) : d \in {x \in DataSeqs(n - 1) : Len(x) = n - 1}, r \in DataRows}

\* What precedes the data rows: preamble rows and the header row, if any
Tops == {
    <<H_Plain>>, <<R_Junk, H_Plain>>, <<H_Fallback, H_Plain>>,
    <<H_Extra>>, <<H_Fallback>>, <<H_Short>>, <<H_Trailer>>, <<R_Junk>> }

RawTables == {t \o d : t \in Tops, d \in DataSeqs(MaxRows)}

(***************************************************************************)
(* clean_csv, one action per step                                          *)
(***************************************************************************)
Init ==
    /\ XmlIdle
    /\ AuxIdle
    /\ rows \in RawTables
    /\ pc = "find_header"
    /\ clean_rows = <<>>
    /\ header_index = 0
    /\ end_index = <<>>
    /\ cinn_idx = 0
    /\ pos = 0
    /\ out = <<>>
    /\ current_group_name = <<>>
    /\ filled = 0
    /\ removed = 0
    /\ filled_count = 0
    /\ removed_summaries = 0
    /\ removed_last = FALSE
    /\ removed_hotovost = 0
    /\ output = <<>>

\* 1) header_index = find_header_index(rows); clean_rows = rows[header_index:]
FindHeader ==
    /\ pc = "find_header"
    /\ ~ find_header_index(rows).raised
    /\ header_index' = find_header_index(rows).value
    /\ clean_rows' = slice_from(rows, header_index')
    /\ pc' = "select"
    /\ UNCHANGED <<xml_vars, aux_vars>>
    /\ UNCHANGED <<rows, end_index, cinn_idx, pos, out, current_group_name, filled,
                   removed, filled_count, removed_summaries, removed_last,
                   removed_hotovost, output>>

\* 1) find_header_index raises RuntimeError: the run ends, nothing is written
HeaderNotFound ==
    /\ pc = "find_header"
    /\ find_header_index(rows).raised
    /\ pc' = "raised"
    /\ UNCHANGED <<xml_vars, aux_vars>>
    /\ UNCHANGED <<rows, clean_rows, header_index, end_index, cinn_idx, pos, out,
                   current_group_name, filled, removed, filled_count,
                   removed_summaries, removed_last, removed_hotovost, output>>

\* 2) clean_rows = select_required_columns(clean_rows)
SelectColumns ==
    /\ pc = "select"
    /\ clean_rows' = select_required_columns(clean_rows)
    /\ pc' = "strip"
    /\ UNCHANGED <<xml_vars, aux_vars>>
    /\ UNCHANGED <<rows, header_index, end_index, cinn_idx, pos, out,
                   current_group_name, filled, removed, filled_count,
                   removed_summaries, removed_last, removed_hotovost, output>>

\* 3) clean_rows = strip_spaces_in_numeric_cols(clean_rows, clean_rows[0])
StripSpaces ==
    /\ pc = "strip"
    /\ clean_rows' = strip_spaces_in_numeric_cols(clean_rows, clean_rows[1])
    /\ pc' = "drop_empty"
    /\ UNCHANGED <<xml_vars, aux_vars>>
    /\ UNCHANGED <<rows, header_index, end_index, cinn_idx, pos, out,
                   current_group_name, filled, removed, filled_count,
                   removed_summaries, removed_last, removed_hotovost, output>>

\* 4) empty rows are dropped
DropEmptyRows ==
    /\ pc = "drop_empty"
    /\ clean_rows' = drop_empty_rows(clean_rows)
    /\ pc' = "truncate"
    /\ UNCHANGED <<xml_vars, aux_vars>>
    /\ UNCHANGED <<rows, header_index, end_index, cinn_idx, pos, out,
                   current_group_name, filled, removed, filled_count,
                   removed_summaries, removed_last, removed_hotovost, output>>

\* 5) everything from the "Vypracoval:" row on is dropped
Truncate ==
    /\ pc = "truncate"
    /\ end_index' = find_end_index(clean_rows, 0)
    /\ clean_rows' = truncate_trailer(clean_rows)
    /\ pc' = IF clean_rows' = <<>> THEN "write_empty" ELSE "fold"
    /\ UNCHANGED <<xml_vars, aux_vars>>
    /\ UNCHANGED <<rows, header_index, cinn_idx, pos, out,
                   current_group_name, filled, removed, filled_count,
                   removed_summaries, removed_last, removed_hotovost, output>>

\* if not clean_rows: the empty table is written and clean_csv returns
WriteEmpty ==
    /\ pc = "write_empty"
    /\ output' = <<clean_rows>>
    /\ pc' = "done"
    /\ UNCHANGED <<xml_vars, aux_vars>>
    /\ UNCHANGED <<rows, clean_rows, header_index, end_index, cinn_idx, pos, out,
                   current_group_name, filled, removed, filled_count,
                   removed_summaries, removed_last, removed_hotovost>>

\* 6) cinn_idx = find_cinn_col_index(header); forward_fill_from_summary is entered
FillBegin ==
    /\ pc = "fold"
    /\ cinn_idx' = find_cinn_col_index(clean_rows[1])
    /\ out' = fill_start(clean_rows).out
    /\ current_group_name' = fill_start(clean_rows).current_group_name
    /\ filled' = fill_start(clean_rows).filled
    /\ removed' = fill_start(clean_rows).removed
    /\ pos' = 1
    /\ pc' = "fill"
    /\ UNCHANGED <<xml_vars, aux_vars>>
    /\ UNCHANGED <<rows, clean_rows, header_index, end_index, filled_count,
                   removed_summaries, removed_last, removed_hotovost, output>>

\* One iteration of the loop of forward_fill_from_summary
FillStep ==
    /\ pc = "fill"
    /\ pos < Len(clean_rows)
    /\ LET st == fill_step([out |-> out, current_group_name |-> current_group_name,
                            filled |-> filled, removed |-> removed, raised |-> FALSE],
                           cell(clean_rows, pos), cinn_idx)
       IN /\ out' = st.out
          /\ current_group_name' = st.current_group_name
          /\ filled' = st.filled
          /\ removed' = st.removed
          /\ pc' = IF st.raised THEN "raised" ELSE "fill"
          /\ clean_rows' = [clean_rows EXCEPT ![pos + 1] =
                               input_row_after(st, cell(clean_rows, pos), cinn_idx)]
    /\ pos' = pos + 1
    /\ UNCHANGED <<xml_vars, aux_vars>>
    /\ UNCHANGED <<rows, header_index, end_index, cinn_idx, filled_count,
                   removed_summaries, removed_last, removed_hotovost, output>>

\* return out, filled, removed
FillReturn ==
    /\ pc = "fill"
    /\ pos >= Len(clean_rows)
    /\ clean_rows' = out
    /\ filled_count' = filled
    /\ removed_summaries' = removed
    /\ pc' = "drop_last"
    /\ UNCHANGED <<xml_vars, aux_vars>>
    /\ UNCHANGED <<rows, header_index, end_index, cinn_idx, pos, out,
                   current_group_name, filled, removed, removed_last,
                   removed_hotovost, output>>

\* 7) a last row that is still a summary row is dropped
DropLastSummary ==
    /\ pc = "drop_last"
    /\ clean_rows' = IF drops_last(clean_rows, cinn_idx)
                     THEN slice_to(clean_rows, Len(clean_rows) - 1) ELSE clean_rows
    /\ removed_last' = drops_last(clean_rows, cinn_idx)
    /\ removed_summaries' = IF drops_last(clean_rows, cinn_idx)
                            THEN removed_summaries + 1 ELSE removed_summaries
    /\ pc' = "exclude"
    /\ UNCHANGED <<xml_vars, aux_vars>>
    /\ UNCHANGED <<rows, header_index, end_index, cinn_idx, pos, out,
                   current_group_name, filled, removed, filled_count,
                   removed_hotovost, output>>

\* 7b) rows named "Výplata v hotovosti" are dropped
ExcludeNamed ==
    /\ pc = "exclude"
    /\ clean_rows' = drop_hotovost(clean_rows)
    /\ removed_hotovost' = Len(clean_rows) - Len(clean_rows')
    /\ pc' = "write"
    /\ UNCHANGED <<xml_vars, aux_vars>>
    /\ UNCHANGED <<rows, header_index, end_index, cinn_idx, pos, out,
                   current_group_name, filled, removed, filled_count,
                   removed_summaries, removed_last, output>>

\* 8) the cleaned table is written
WriteOutput ==
    /\ pc = "write"
    /\ output' = <<clean_rows>>
    /\ pc' = "done"
    /\ UNCHANGED <<xml_vars, aux_vars>>
    /\ UNCHANGED <<rows, clean_rows, header_index, end_index, cinn_idx, pos, out,
                   current_group_name, filled, removed, filled_count,
                   removed_summaries, removed_last, removed_hotovost>>

Next ==
    \/ FindHeader
    \/ HeaderNotFound
    \/ SelectColumns
    \/ StripSpaces
    \/ DropEmptyRows
    \/ Truncate
    \/ WriteEmpty
    \/ FillBegin
    \/ FillStep
    \/ FillReturn
    \/ DropLastSummary
    \/ ExcludeNamed
    \/ WriteOutput

Spec == Init /\ [][Next]_vars

(***************************************************************************)
(* The Summary Folder on tables that steps 1 to 5 leave as they are        *)
(***************************************************************************)
MaxFillRows == 4

H_CinnFirst == <<S_Cinn, S_Nazov, S_UcetMD, S_UcetDal>>

FillRows == {
    << <<"T", "O", "T", "A", "L", "_", "A">>, E, E, E >>,
    << <<"T", "O", "T", "A", "L", "_", "A">>, E, E, <<"5">> >>,
    << <<"G", NBSP, "H">>, E, E, <<"5">> >>,
    << E, E, E, <<"7">> >>,
    << E, <<"1">>, <<"2">>, <<"3">> >>,
    << <<" ">>, <<"1">>, E, E >>,
    << <<"A", " ", "B">>, <<"1">>, <<"2">>, <<"3">> >> }

RECURSIVE FillSeqs(_)
FillSeqs(n) ==
    IF n = 0 THEN {<<>>}
    ELSE FillSeqs(n - 1)
         \cup {Append(d, r) : d \in {x \in FillSeqs(n - 1) : Len(x) = n - 1}, r \in FillRows}

FillTables == {<<h>> \o d : h \in {H_Plain, H_CinnFirst}, d \in FillSeqs(MaxFillRows)}

\* Steps 1 to 5 of clean_csv on a table whose header is found
steps_1_to_5(t) ==
    LET located   == slice_from(t, find_header_index(t).value)
        projected == select_required_columns(located)
        stripped  == strip_spaces_in_numeric_cols(projected, projected[1])
    IN truncate_trailer(drop_empty_rows(stripped))

\* The run has read a table that steps 1 to 5 leave unchanged, and has done them.
InitFill ==
    /\ XmlIdle
    /\ AuxIdle
    /\ rows \in FillTables
    /\ ~ find_header_index(rows).raised
    /\ find_header_index(rows).value = 0
    /\ steps_1_to_5(rows) = rows
    /\ pc = "fold"
    /\ clean_rows = rows
    /\ header_index = 0
    /\ end_index = <<>>
    /\ cinn_idx = 0
    /\ pos = 0
    /\ out = <<>>
    /\ current_group_name = <<>>
    /\ filled = 0
    /\ removed = 0
    /\ filled_count = 0
    /\ removed_summaries = 0
    /\ removed_last = FALSE
    /\ removed_hotovost = 0
    /\ output = <<>>

NextFill ==
    \/ FillBegin
    \/ FillStep
    \/ FillReturn
    \/ DropLastSummary
    \/ ExcludeNamed
    \/ WriteOutput

SpecFill == InitFill /\ [][NextFill]_vars

(***************************************************************************)
(* select_required_columns on any table, applied twice                     *)
(***************************************************************************)
MaxSelectRows == 2

SelectHeaders == {
    H_Plain, H_Extra, H_Short, <<>>,
    << <<"P", "o", "z", "n">>, <<"X">> >>,
    << <<"P", "o", "z", "n">>, <<" ", "m", "d", NBSP>>, <<"D", "A", "L", " ", "z", "a", "k">> >> }

RECURSIVE SelectSeqs(_)
SelectSeqs(n) ==
    IF n = 0 THEN {<<>>}
    ELSE SelectSeqs(n - 1)
         \cup {Append(d, r) : d \in {x \in SelectSeqs(n - 1) : Len(x) = n - 1},
                              r \in DataRows \cup {<<>>}}

SelectTables == {<<>>} \cup {<<h>> \o d : h \in SelectHeaders, d \in SelectSeqs(MaxSelectRows)}

InitSelect ==
    /\ XmlIdle
    /\ AuxIdle
    /\ rows \in SelectTables
    /\ pc = "project"
    /\ clean_rows = rows
    /\ header_index = 0
    /\ end_index = <<>>
    /\ cinn_idx = 0
    /\ pos = 0
    /\ out = <<>>
    /\ current_group_name = <<>>
    /\ filled = 0
    /\ removed = 0
    /\ filled_count = 0
    /\ removed_summaries = 0
    /\ removed_last = FALSE
    /\ removed_hotovost = 0
    /\ output = <<>>

\* clean_rows = select_required_columns(clean_rows), a first and a second time
Project ==
    /\ pc \in {"project", "project_again"}
    /\ clean_rows' = select_required_columns(clean_rows)
    /\ pc' = IF pc = "project" THEN "project_again" ELSE "projected"
    /\ UNCHANGED <<xml_vars, aux_vars>>
    /\ UNCHANGED <<rows, header_index, end_index, cinn_idx, pos, out,
                   current_group_name, filled, removed, filled_count,
                   removed_summaries, removed_last, removed_hotovost, output>>

NextSelect == Project

SpecSelect == InitSelect /\ [][NextSelect]_vars

(***************************************************************************)
(* create_xml_file.main, one action per step                               *)
(***************************************************************************)
MaxXmlRows == 3

H_Six      == <<S_Nazov, S_UcetMD, S_UcetDal, S_Stred, S_Zak, S_Cinn>>
H_SixMixed == <<S_UcetDal, <<" ", "N", AAcute, "Z", "O", "V">>, S_Cinn, S_UcetMD, S_Zak, S_Stred>>

XmlHeaders == {H_Six, H_SixMixed, H_Plain}

XmlDataRows == {
    << <<"M", "z", "d", "y">>, <<"2", "2", "1">>, <<"5", "2", "1">>, <<"1", "0">>,
       <<"2", "0">>, <<"1", "0", "0", ",", "5", "0">> >>,
    << <<"A", " ", "B">>, <<"3", "3", "1">>, E, E, <<"2", "0">>,
       <<"1", " ", "2", "3", "4", ",", "5", "6">> >>,
    << <<" ", "x", " ">>, <<"1">>, <<"2">>, E, E, <<"1", ",", "2", ",", "3">> >>,
    << <<"O", "d", "v", "o", "d", "y">>, <<"5", "2", "4">>, <<"3", "3", "6">>, E, E,
       <<"7", ".", "5">> >>,
    << <<"S">>, <<"5">>, <<"6">> >> }

RECURSIVE XmlSeqs(_)
XmlSeqs(n) ==
    IF n = 0 THEN {<<>>}
    ELSE XmlSeqs(n - 1)
         \cup {Append(d, r) : d \in {x \in XmlSeqs(n - 1) : Len(x) = n - 1}, r \in XmlDataRows}

XmlTables == {<<>>} \cup {<<h>> \o d : h \in XmlHeaders, d \in XmlSeqs(MaxXmlRows)}

V_Number == <<"2", "5", "0", "9", "0", "1">>
V_Date   == <<"3", "0", ".", "0", "9", ".", "2", "0", "2", "5">>
V_Kind   == <<"I", "D", " ", "m", "z", "d", "y">>

\* The attribute values given: all six, or text_ud left out, or typ_ud blank
XmlValues == {
    [k \in {DOC_ATTRS[n] : n \in 1..Len(DOC_ATTRS)} |->
        CASE k = "cislo_ud" -> <<V_Number>>
          [] k = "datum_ud" -> <<V_Date>>
          [] k = "mandant_id" -> <<<<"1">>>>
          [] k = "druh_ud" -> <<V_Kind>>
          [] k = "typ_ud" -> typ
          [] k = "text_ud" -> txt] :
    typ \in {<<<<"I">>>>, <<<<" ">>>>}, txt \in {<<<<"T", "e", "x", "t">>>>, <<>>} }

InitXml ==
    /\ CsvIdle
    /\ AuxIdle
    /\ xml_table \in XmlTables
    /\ xml_values \in XmlValues
    /\ no_interactive \in BOOLEAN
    /\ keep_empty \in BOOLEAN
    /\ xml_pc = "attrs"
    /\ doc_attrs = <<>>
    /\ xml_rows = <<>>
    /\ xml_headers = <<>>
    /\ cols = <<>>
    /\ root = <<>>
    /\ xml_output = <<>>
    /\ xml_error = <<>>

\* 1) doc_attrs = collect_doc_attributes(...), or SystemExit
CollectAttrs ==
    /\ xml_pc = "attrs"
    /\ LET r == collect_doc_attributes(no_interactive, xml_values)
       IN /\ doc_attrs' = IF r.raised THEN doc_attrs ELSE r.value
          /\ xml_pc' = IF r.raised THEN "exit" ELSE "read"
          /\ xml_error' = IF r.raised
                          THEN <<[kind |-> "missing_attributes", missing |-> <<>>]>>
                          ELSE xml_error
    /\ UNCHANGED <<csv_vars, aux_vars>>
    /\ UNCHANGED <<xml_table, xml_values, no_interactive, keep_empty, xml_rows,
                   xml_headers, cols, root, xml_output>>

\* 2) rows, headers = read_csv(...); SystemExit without headers
ReadCsv ==
    /\ xml_pc = "read"
    /\ xml_rows' = read_csv(xml_table)[1]
    /\ xml_headers' = read_csv(xml_table)[2]
    /\ xml_pc' = IF xml_headers' = <<>> THEN "exit" ELSE "ensure"
    /\ xml_error' = IF xml_headers' = <<>>
                    THEN <<[kind |-> "no_header", missing |-> <<>>]>>
                    ELSE xml_error
    /\ UNCHANGED <<csv_vars, aux_vars>>
    /\ UNCHANGED <<xml_table, xml_values, no_interactive, keep_empty, doc_attrs,
                   cols, root, xml_output>>

\* 2) cols = ensure_required_columns(headers), or SystemExit
EnsureColumns ==
    /\ xml_pc = "ensure"
    /\ LET r == ensure_required_columns(xml_headers)
       IN /\ cols' = IF r.raised THEN cols ELSE r.value
          /\ xml_pc' = IF r.raised THEN "exit" ELSE "build"
          /\ xml_error' = IF r.raised
                          THEN <<[kind |-> "missing_columns", missing |-> r.missing]>>
                          ELSE xml_error
    /\ UNCHANGED <<csv_vars, aux_vars>>
    /\ UNCHANGED <<xml_table, xml_values, no_interactive, keep_empty, doc_attrs,
                   xml_rows, xml_headers, root, xml_output>>

\* 3) root = build_xml(doc_attrs, rows, cols, keep_empty)
BuildXml ==
    /\ xml_pc = "build"
    /\ root' = <<build_xml(doc_attrs, xml_rows, cols, keep_empty)>>
    /\ xml_pc' = "write"
    /\ UNCHANGED <<csv_vars, aux_vars>>
    /\ UNCHANGED <<xml_table, xml_values, no_interactive, keep_empty, doc_attrs,
                   xml_rows, xml_headers, cols, xml_output, xml_error>>

\* 4) the document is written
WriteXml ==
    /\ xml_pc = "write"
    /\ xml_output' = root
    /\ xml_pc' = "done"
    /\ UNCHANGED <<csv_vars, aux_vars>>
    /\ UNCHANGED <<xml_table, xml_values, no_interactive, keep_empty, doc_attrs,
                   xml_rows, xml_headers, cols, root, xml_error>>

NextXml ==
    \/ CollectAttrs
    \/ ReadCsv
    \/ EnsureColumns
    \/ BuildXml
    \/ WriteXml

SpecXml == InitXml /\ [][NextXml]_vars

(***************************************************************************)
(* create_xml_file.main on the header of a projected table                 *)
(***************************************************************************)
\* A header cell for one canonical column: left out, the canonical label, or a
\* shorter form that the patterns of select_required_columns accept
Forms(label, short) == {<<>>, <<label>>, <<short>>}

S_Pozn == <<"P", "o", "z", "n">>

RawHeaders ==
    {<<S_Pozn>> \o a \o b \o c \o d \o e \o f :
        a \in Forms(S_Nazov, <<"N", "a", "z", "o", "v">>),
        b \in Forms(S_UcetMD, <<"M", "D">>),
        c \in Forms(S_UcetDal, <<"D", "a", "l">>),
        d \in Forms(S_Stred, <<"S", "t", "r", "e", "d">>),
        e \in Forms(S_Zak, <<"Z", "a", "k">>),
        f \in Forms(S_Cinn, <<"C", "i", "n", "n", ".">>)}

R_Full == << <<"x">>, <<"A">>, <<"1">>, <<"2">>, <<"3">>, <<"4">>, <<"5">> >>

\* The tables the Column Projector hands on: a header and one data row
ProjectedTables ==
    {select_required_columns(<<h, SubSeq(R_Full, 1, Len(h))>>) : h \in RawHeaders}

InitColumns ==
    /\ CsvIdle
    /\ AuxIdle
    /\ xml_table \in ProjectedTables
    /\ xml_values \in XmlValues
    /\ no_interactive = FALSE
    /\ keep_empty = FALSE
    /\ xml_pc = "attrs"
    /\ doc_attrs = <<>>
    /\ xml_rows = <<>>
    /\ xml_headers = <<>>
    /\ cols = <<>>
    /\ root = <<>>
    /\ xml_output = <<>>
    /\ xml_error = <<>>

SpecColumns == InitColumns /\ [][NextXml]_vars

(***************************************************************************)
(* to_amount called on its own                                             *)
(***************************************************************************)
MaxAmountLen == 4

AmountChars == {" ", NBSP, ",", ".", "1"}

RECURSIVE AmountStrings(_)
AmountStrings(n) ==
    IF n = 0 THEN {<<>>}
    ELSE AmountStrings(n - 1)
         \cup {Append(t, c) : t \in {x \in AmountStrings(n - 1) : Len(x) = n - 1},
                              c \in AmountChars}

A_Thousands == <<"1", " ", "2", "3", "4", ",", "5", "6">>
A_Period    == <<"1", "2", "3", "4", ".", "5", "6">>
A_Commas    == <<"1", ",", "2", ",", "3">>

\* The arguments: None, and the strings
AmountInputs ==
    {<<>>} \cup {<<t>> : t \in AmountStrings(MaxAmountLen) \cup {A_Thousands, A_Period, A_Commas}}

InitAmount ==
    /\ CsvIdle
    /\ XmlIdle
    /\ AppIdle
    /\ amount_in \in AmountInputs
    /\ amount_out = <<>>
    /\ amount_pc = "call"

ToAmount ==
    /\ amount_pc = "call"
    /\ amount_out' = to_amount(amount_in)
    /\ amount_pc' = "returned"
    /\ UNCHANGED <<csv_vars, xml_vars, app_vars, amount_in>>

NextAmount == ToAmount

SpecAmount == InitAmount /\ [][NextAmount]_vars

(***************************************************************************)
(* App.run_conversion: clean_csv_header.py, then create_xml_file.py        *)
(***************************************************************************)
MaxAppRows == 2

H_TrailerSix == <<S_Vypracoval \o <<" ">> \o S_Nazov>> \o H_Six

\* The six labels in capitals: not a header for find_header_index, a header
\* for try_find_header_and_write_subset
H_SixUpper == << <<"N", AAcute, "Z", "O", "V">>,
                 <<UAcute, CCaron, "E", "T", " ", "M", "D">>,
                 <<UAcute, CCaron, "E", "T", " ", "D", "A", "L">>,
                 <<"S", "T", "R", "E", "D", ".">>,
                 <<"Z", AAcute, "K", ".">>,
                 <<CCaron, "I", "N", "N", ".">> >>

\* The tops of the chosen files; <<>> is an empty line, before the header in
\* one and after it in another
AppTops == {<<H_Six>>, <<R_Junk, H_Six>>, <<H_Plain>>, <<R_Junk>>, <<H_TrailerSix>>,
            <<H_SixUpper>>, <<<<>>, H_Six>>, <<H_Six, <<>>>>}

AppDataRows == {
    << <<"M", "z", "d", "y">>, <<"2", "2", "1">>, <<"5", "2", "1">>, <<"1", "0">>,
       <<"2", "0">>, <<"1", "0", "0", ",", "5", "0">> >>,
    << E, E, E, E, E, <<"5">> >>,
    << S_vyplata, E, E, E, E, E >> }

RECURSIVE AppSeqs(_)
AppSeqs(n) ==
    IF n = 0 THEN {<<>>}
    ELSE AppSeqs(n - 1)
         \cup {Append(d, r) : d \in {x \in AppSeqs(n - 1) : Len(x) = n - 1}, r \in AppDataRows}

AppTables == {t \o d : t \in AppTops, d \in AppSeqs(MaxAppRows)}

\* The entry fields: all six filled in, text_ud beginning with "-" or not
AppDocVars == {
    [k \in {DOC_ATTRS[n] : n \in 1..Len(DOC_ATTRS)} |->
        CASE k = "cislo_ud" -> V_Number
          [] k = "datum_ud" -> V_Date
          [] k = "mandant_id" -> <<"1">>
          [] k = "druh_ud" -> V_Kind
          [] k = "typ_ud" -> <<"I">>
          [] k = "text_ud" -> txt] :
    txt \in {<<"T", "e", "x", "t">>, <<"-", "x">>, <<"-", "1">>} }

\* App.__init__: the entry fields as they are filled in beforehand
initial_doc_vars ==
    [k \in {DOC_ATTRS[n] : n \in 1..Len(DOC_ATTRS)} |->
        CASE k = "mandant_id" -> <<"1">>
          [] k = "druh_ud" -> V_Kind
          [] k = "typ_ud" -> <<"I">>
          [] OTHER -> <<>>]

\* The application after App(): no file chosen, the entry fields as
\* __init__ fills them, the main loop waiting; the two scripts are beside the
\* application or not
InitApp ==
    /\ CsvIdle
    /\ XmlIdle
    /\ AmountIdle
    /\ csv_path = <<>>
    /\ csv_crlf = FALSE
    /\ doc_vars = initial_doc_vars
    /\ cleaner_exists \in BOOLEAN
    /\ converter_exists \in BOOLEAN
    /\ save_as = FALSE
    /\ ran_cleaner = FALSE
    /\ cleaned_csv = <<>>
    /\ out_file = <<>>
    /\ shown = <<>>
    /\ app_pc = "mainloop"

\* choose_csv: the file the dialog gives becomes csv_path; a cancelled dialog
\* changes nothing
ChooseCsv ==
    /\ app_pc = "mainloop"
    /\ \E path \in {<<>>} \cup {<<t>> : t \in AppTables} : \E crlf \in BOOLEAN :
          /\ csv_path' = IF path = <<>> THEN csv_path ELSE path
          /\ csv_crlf' = IF path = <<>> THEN csv_crlf ELSE crlf
    /\ UNCHANGED <<csv_vars, xml_vars, amount_vars>>
    /\ UNCHANGED <<doc_vars, cleaner_exists, converter_exists, save_as, ran_cleaner,
                   cleaned_csv, out_file, shown, app_pc>>

\* The user types into the entry fields, which are bound to doc_vars
TypeFields ==
    /\ app_pc = "mainloop"
    /\ doc_vars' \in AppDocVars \cup {initial_doc_vars}
    /\ UNCHANGED <<csv_vars, xml_vars, amount_vars>>
    /\ UNCHANGED <<csv_path, csv_crlf, cleaner_exists, converter_exists, save_as, ran_cleaner,
                   cleaned_csv, out_file, shown, app_pc>>

\* Without a chosen file a warning is shown; else 1) clean_csv_header.py is run
\* when it is there, and the internal cleaning is tried when it is not
RunConversion ==
    /\ app_pc = "mainloop"
    /\ shown' = IF csv_path = <<>> THEN <<"warning">> ELSE shown
    /\ app_pc' = IF csv_path = <<>> THEN "leaving"
                 ELSE IF cleaner_exists THEN "cleaner" ELSE "fallback"
    /\ rows' = IF csv_path # <<>> /\ cleaner_exists THEN csv_path[1] ELSE rows
    /\ pc' = IF csv_path # <<>> /\ cleaner_exists THEN "find_header" ELSE pc
    /\ UNCHANGED <<xml_vars, amount_vars>>
    /\ UNCHANGED <<clean_rows, header_index, end_index, cinn_idx, pos, out,
                   current_group_name, filled, removed, filled_count,
                   removed_summaries, removed_last, removed_hotovost, output>>
    /\ UNCHANGED <<csv_path, csv_crlf, doc_vars, cleaner_exists, converter_exists, save_as,
                   ran_cleaner, cleaned_csv, out_file>>

\* ret = run_script(cleaner, ...): an exception of clean_csv is not caught by
\* run_script and ends run_conversion; a cleaned file that is missing or empty
\* leads to the internal cleaning
CleanerReturned ==
    /\ app_pc = "cleaner"
    /\ pc \in {"done", "raised"}
    /\ LET ret == run_script(IF pc = "raised" THEN Failed("RuntimeError") ELSE Ended)
           ok  == ~ ret.raised /\ ret.value = 0 /\ output # <<>> /\ output[1] # <<>>
       IN /\ shown' = IF ret.raised THEN <<"unexpected">> ELSE shown
          /\ ran_cleaner' = ok
          /\ cleaned_csv' = IF ok THEN output ELSE cleaned_csv
          /\ app_pc' = IF ret.raised THEN "leaving"
                       ELSE IF ok THEN "converter" ELSE "fallback"
    /\ UNCHANGED <<csv_vars, xml_vars, amount_vars>>
    /\ UNCHANGED <<csv_path, csv_crlf, doc_vars, cleaner_exists, converter_exists, save_as, out_file>>

\* if not ran_cleaner: try_find_header_and_write_subset, SystemExit without a header
InternalCleaning ==
    /\ app_pc = "fallback"
    /\ LET r == try_find_header_and_write_subset(csv_path[1], csv_crlf)
       IN /\ cleaned_csv' = IF r.ok THEN r.written ELSE cleaned_csv
          /\ shown' = IF r.ok THEN shown ELSE <<"error">>
          /\ app_pc' = IF r.ok THEN "converter" ELSE "leaving"
    /\ UNCHANGED <<csv_vars, xml_vars, amount_vars>>
    /\ UNCHANGED <<csv_path, csv_crlf, doc_vars, cleaner_exists, converter_exists, save_as,
                   ran_cleaner, out_file>>

\* 2) create_xml_file.py is run on cleaned.csv with --no-interactive and
\* "--k value" for each of the six entry fields, and without --delimiter:
\* main parses these arguments, exiting with code 2 when a value is taken for
\* an option string, and else reads the file with the dialect it sniffs. The
\* file clean_csv wrote has lines ending in "\r\n", the file of the internal
\* cleaning has lines ending in "\n". SystemExit when the script is not
\* there: the with block is left, which removes the temporary directory with
\* cleaned.csv, before the box "Chyba" is shown
StartConverter ==
    /\ app_pc = "converter"
    /\ shown' = IF converter_exists THEN shown ELSE <<"error">>
    /\ app_pc' = IF converter_exists THEN "converting" ELSE "leaving"
    /\ cleaned_csv' = IF converter_exists THEN cleaned_csv ELSE <<>>
    /\ LET parsed == converter_exists /\ ~ parse_args_exits(doc_vars)
       IN /\ xml_table' = IF parsed THEN sniffed_table(cleaned_csv[1], ran_cleaner)
                          ELSE xml_table
          /\ xml_values' = IF parsed THEN [k \in DOMAIN doc_vars |-> <<doc_vars[k]>>]
                           ELSE xml_values
          /\ no_interactive' = parsed
          /\ xml_pc' = IF parsed THEN "attrs"
                       ELSE IF converter_exists THEN "usage" ELSE xml_pc
    /\ UNCHANGED <<csv_vars, amount_vars>>
    /\ UNCHANGED <<keep_empty, doc_attrs, xml_rows, xml_headers, cols, root, xml_output,
                   xml_error>>
    /\ UNCHANGED <<csv_path, csv_crlf, doc_vars, cleaner_exists, converter_exists, save_as,
                   ran_cleaner, out_file>>

\* ret = run_script(converter, args): SystemExit(main()) gives 0, the exit of
\* parse_args gives 2, a SystemExit with a message makes int() raise; then the
\* check of ret and of out.xml. An exception leaves the with block, which
\* removes the temporary directory with cleaned.csv, before its box is shown
ConverterReturned ==
    /\ app_pc = "converting"
    /\ xml_pc \in {"done", "exit", "usage"}
    /\ LET ret == run_script(IF xml_pc = "exit" THEN ExitMessage
                             ELSE IF xml_pc = "usage" THEN ExitCode(2)
                             ELSE ExitCode(0))
       IN /\ shown' = IF ret.raised THEN <<"unexpected">>
                      ELSE IF ret.value # 0 \/ xml_output = <<>> THEN <<"error">>
                      ELSE shown
          /\ app_pc' = IF ret.raised THEN "leaving"
                       ELSE IF ret.value # 0 \/ xml_output = <<>> THEN "leaving"
                       ELSE "save"
          /\ cleaned_csv' = IF ret.raised THEN <<>>
                            ELSE IF ret.value # 0 \/ xml_output = <<>> THEN <<>>
                            ELSE cleaned_csv
    /\ UNCHANGED <<csv_vars, xml_vars, amount_vars>>
    /\ UNCHANGED <<csv_path, csv_crlf, doc_vars, cleaner_exists, converter_exists, save_as,
                   ran_cleaner, out_file>>

\* The save dialog: without a name run_conversion returns, else out.xml is
\* copied to the named file; either way the with block is left, which removes
\* the temporary directory with cleaned.csv, and after it the box "Hotovo" is
\* shown when the file was written
SaveAs ==
    /\ app_pc = "save"
    /\ \E named \in BOOLEAN :
          /\ save_as' = named
          /\ out_file' = IF named THEN xml_output ELSE out_file
          /\ shown' = IF named THEN <<"info">> ELSE shown
    /\ app_pc' = "leaving"
    /\ cleaned_csv' = <<>>
    /\ UNCHANGED <<csv_vars, xml_vars, amount_vars>>
    /\ UNCHANGED <<csv_path, csv_crlf, doc_vars, cleaner_exists, converter_exists,
                   ran_cleaner>>

\* run_conversion returns to the main loop: its message box is closed, and
\* what the call held and what the two scripts did in it is gone; the chosen
\* file and the entry fields stay
Return ==
    /\ app_pc = "leaving"
    /\ app_pc' = "mainloop"
    /\ rows' = <<>>
    /\ pc' = "idle"
    /\ clean_rows' = <<>>
    /\ header_index' = 0
    /\ end_index' = <<>>
    /\ cinn_idx' = 0
    /\ pos' = 0
    /\ out' = <<>>
    /\ current_group_name' = <<>>
    /\ filled' = 0
    /\ removed' = 0
    /\ filled_count' = 0
    /\ removed_summaries' = 0
    /\ removed_last' = FALSE
    /\ removed_hotovost' = 0
    /\ output' = <<>>
    /\ xml_table' = <<>>
    /\ xml_values' = <<>>
    /\ no_interactive' = FALSE
    /\ keep_empty' = FALSE
    /\ xml_pc' = "idle"
    /\ doc_attrs' = <<>>
    /\ xml_rows' = <<>>
    /\ xml_headers' = <<>>
    /\ cols' = <<>>
    /\ root' = <<>>
    /\ xml_output' = <<>>
    /\ xml_error' = <<>>
    /\ save_as' = FALSE
    /\ ran_cleaner' = FALSE
    /\ cleaned_csv' = <<>>
    /\ out_file' = <<>>
    /\ shown' = <<>>
    /\ UNCHANGED <<csv_path, csv_crlf, doc_vars, cleaner_exists, converter_exists, amount_vars>>

NextApp ==
    \/ ChooseCsv
    \/ TypeFields
    \/ RunConversion
    \/ CleanerReturned
    \/ InternalCleaning
    \/ StartConverter
    \/ ConverterReturned
    \/ SaveAs
    \/ Return
    \/ Next
    \/ NextXml

SpecApp == InitApp /\ [][NextApp]_vars

(***************************************************************************)
(* Properties                                                              *)
(***************************************************************************)
\* The least element of a non-empty set of integers
MinOf(S) == CHOOSE m \in S : \A n \in S : m <= n

\* The 0-based indices of the rows of `t` under the primary rule: the trimmed
\* first cell is "Názov", and the joined row holds "Účet MD" and "Účet Dal"
PrimaryRows(t) ==
    {i \in 0..(Len(t) - 1) :
        /\ Len(t[i + 1]) > 0
        /\ strip(t[i + 1][1]) = S_Nazov
        /\ contains(join(t[i + 1]), S_UcetMD)
        /\ contains(join(t[i + 1]), S_UcetDal)}

\* ... and under the fallback rule: the joined row holds all three
FallbackRows(t) ==
    {i \in 0..(Len(t) - 1) :
        \A lit \in {S_Nazov, S_UcetMD, S_UcetDal} : contains(join(t[i + 1]), lit)}

\* C5: once the header has been looked for, header_index is the smallest index
\* of a primary-rule row if there is one (even after an earlier fallback-only
\* row), else the smallest index of a fallback-rule row; with neither, the run
\* has failed with the error, no index was returned and nothing was cleaned.
C5_HeaderIndex ==
    pc # "find_header" =>
        IF PrimaryRows(rows) # {}
        THEN pc # "raised" /\ header_index = MinOf(PrimaryRows(rows))
        ELSE IF FallbackRows(rows) # {}
        THEN pc # "raised" /\ header_index = MinOf(FallbackRows(rows))
        ELSE pc = "raised" /\ clean_rows = <<>> /\ output = <<>>

\* C5 witness: the header was found by the primary rule behind a row that only
\* the fallback rule matches.
C5_Witness ==
    /\ pc = "select"
    /\ header_index = 1
    /\ 0 \in FallbackRows(rows) \ PrimaryRows(rows)

\* The 0-based indices of the rows of `t` whose first cell, trimmed, starts
\* with "Vypracoval:"
MarkerRows(t) ==
    {i \in 0..(Len(t) - 1) :
        Len(t[i + 1]) > 0 /\ startswith(strip(t[i + 1][1]), S_Vypracoval)}

\* C10: the Trailer Truncator leaves exactly the rows strictly before the first
\* marker row (the marker row and all later rows are dropped), and leaves the
\* table unchanged when there is no marker row.
C10_Truncation ==
    [][pc = "truncate" =>
          clean_rows' = IF MarkerRows(clean_rows) = {} THEN clean_rows
                        ELSE SubSeq(clean_rows, 1, MinOf(MarkerRows(clean_rows)))]_vars

\* C10 witness: the table was cut at a marker row that a non-blank row which is
\* no marker followed.
C10_Witness ==
    /\ pc = "fold"
    /\ end_index # <<>>
    /\ Len(clean_rows) = end_index[1]
    /\ ~ is_empty_row(rows[Len(rows)])
    /\ (Len(rows) - 1) \notin MarkerRows(rows)
    /\ MarkerRows(rows) # {}

\* The 0-based indices of the cells of header `h` in which a canonical pattern occurs
KeptSet(h) == {i \in 0..(Len(h) - 1) : matches_wanted(normalize(h[i + 1]))}

\* The j-th smallest element of a finite set of integers
Nth(K, j) == CHOOSE i \in K : Cardinality({m \in K : m < i}) = j - 1

\* Every row of table `t` is as long as its first row
SameLengths(t) == \A k \in 1..Len(t) : Len(t[k]) = Len(t[1])

\* C9: when a header cell matches, the projected table has the rows of the
\* source table, each of the length of the set of kept columns, its j-th cell
\* being the source row's cell in the j-th smallest kept column, or the empty
\* string where the source row is too short; and from the projection on every
\* row of every table of the run has the length of the header.
C9_Projection ==
    /\ pc = "strip" =>
          LET src == slice_from(rows, header_index)
              K   == KeptSet(src[1])
          IN K # {} =>
                /\ Len(clean_rows) = Len(src)
                /\ \A k \in 1..Len(src) :
                      /\ Len(clean_rows[k]) = Cardinality(K)
                      /\ \A j \in 1..Cardinality(K) :
                            clean_rows[k][j] =
                                IF Nth(K, j) < Len(src[k])
                                THEN src[k][Nth(K, j) + 1] ELSE <<>>
    /\ pc \notin {"find_header", "select", "raised"} =>
          /\ SameLengths(clean_rows)
          /\ pc = "fill" => \A k \in 1..Len(out) : Len(out[k]) = Len(clean_rows[1])
          /\ output # <<>> => SameLengths(output[1])

\* C9 witness: a projection that dropped a source column and padded a row
\* shorter than the last kept column.
C9_Witness ==
    /\ pc = "strip"
    /\ LET src == slice_from(rows, header_index)
       IN /\ Cardinality(KeptSet(src[1])) \in 1..(Len(src[1]) - 1)
          /\ \E k \in 2..Len(src) : \E i \in KeptSet(src[1]) :
                i >= Len(src[k]) /\ clean_rows[k][Cardinality(KeptSet(src[1]))] = <<>>

\* The 0-based indices of the cells of `row` that are not blank
NonBlank(row) == {j \in 0..(Len(row) - 1) : strip(row[j + 1]) # <<>>}

\* Summary Variant A: exactly column 0 and the Activity column c are not blank
VariantA(row, c) == NonBlank(row) # {} /\ NonBlank(row) = {0} \cup {c}

\* Summary Variant B: exactly the Activity column c is not blank
VariantB(row, c) == NonBlank(row) = {c}

\* The number of data rows of `t` that are neither Variant A nor Variant B
CountOrdinary(t, c) ==
    Cardinality({k \in 2..Len(t) : ~ VariantA(t[k], c) /\ ~ VariantB(t[k], c)})

\* C4: when the Summary Folder has run (the pass and the last-row check), no
\* data row of the table is a Variant A or Variant B row for the Activity
\* column used, filled rows included, and the header row is still the first
\* row; the pass emits exactly the rows that are no summary rows, so a trailing
\* Variant B row is gone and the table is shorter by it.
C4_NoSummaryRows ==
    /\ (pc = "fill" /\ pos >= Len(clean_rows)) =>
          /\ Len(out) = 1 + CountOrdinary(clean_rows, cinn_idx)
          /\ out[1] = clean_rows[1]
          /\ VariantB(clean_rows[Len(clean_rows)], cinn_idx) /\ Len(clean_rows) > 1
                => Len(out) <= Len(clean_rows) - 1
    /\ (pc \in {"exclude", "write"} \/ (pc = "done" /\ clean_rows # <<>>)) =>
          /\ \A k \in 2..Len(clean_rows) :
                ~ VariantA(clean_rows[k], cinn_idx) /\ ~ VariantB(clean_rows[k], cinn_idx)
          /\ clean_rows[1] = out[1]
    /\ pc = "exclude" => Len(clean_rows) >= Len(out) - 1

\* C4 witness: the folder has run on a table whose last row was a Variant B
\* row, and it filled a name on the way.
C4_Witness ==
    /\ pc = "exclude"
    /\ filled_count >= 1
    /\ end_index = <<>>
    /\ Len(rows[header_index + 1]) = Cardinality(KeptSet(rows[header_index + 1]))
    /\ Len(rows[Len(rows)]) = Len(rows[header_index + 1])
    /\ VariantB(rows[Len(rows)], cinn_idx)
    /\ Len(clean_rows) >= 2

\* The greatest element of a non-empty set of integers
MaxOf(S) == CHOOSE m \in S : \A n \in S : m >= n

NameBlank(row) == Len(row) = 0 \/ strip(row[1]) = <<>>

IsOrdinary(row, c) == ~ VariantA(row, c) /\ ~ VariantB(row, c)

\* The name a Variant A row leaves pending: its column 0 trimmed, and, with
\* `norm`, with its non-breaking spaces replaced by spaces first
GroupNameOf(row, norm) ==
    IF norm THEN strip(replace_char(row[1], NBSP, <<" ">>)) ELSE strip(row[1])

\* PendingGroupName after the first n data rows of table `t`, by the rule: unset
\* at the start, set by a Variant A row, left by a Variant B row, cleared by an
\* emitted row with a name, left by an emitted row without one
RECURSIVE PendingAfter(_, _, _, _)
PendingAfter(t, c, n, norm) ==
    IF n = 0 THEN <<>>
    ELSE IF VariantA(t[n + 1], c) THEN <<GroupNameOf(t[n + 1], norm)>>
    ELSE IF VariantB(t[n + 1], c) THEN PendingAfter(t, c, n - 1, norm)
    ELSE IF ~ NameBlank(t[n + 1]) THEN <<>>
    ELSE PendingAfter(t, c, n - 1, norm)

\* The row emitted for the ordinary data row n of `t`: with a blank name it gets
\* the name of the most recent Variant A row before it, if there is one and no
\* emitted row with a name lies between the two; else it is the row itself
EmittedRow(t, c, n, norm) ==
    LET As == {k \in 1..(n - 1) : VariantA(t[k + 1], c)}
    IN IF /\ NameBlank(t[n + 1])
          /\ As # {}
          /\ ~ \E j \in (MaxOf(As) + 1)..(n - 1) :
                  IsOrdinary(t[j + 1], c) /\ ~ NameBlank(t[j + 1])
       THEN [t[n + 1] EXCEPT ![1] = GroupNameOf(t[MaxOf(As) + 1], norm)]
       ELSE t[n + 1]

\* The rows emitted for the first n data rows of `t`, after the header
RECURSIVE EmittedRows(_, _, _, _)
EmittedRows(t, c, n, norm) ==
    IF n = 0 THEN <<t[1]>>
    ELSE EmittedRows(t, c, n - 1, norm)
         \o (IF IsOrdinary(t[n + 1], c) THEN <<EmittedRow(t, c, n, norm)>> ELSE <<>>)

PendingRule(norm) ==
    pc = "fill" =>
        /\ current_group_name = PendingAfter(clean_rows, cinn_idx, pos - 1, norm)
        /\ out = EmittedRows(clean_rows, cinn_idx, pos - 1, norm)

\* C2 (as amended): throughout the pass, PendingGroupName is what the rule gives
\* for the rows read so far, the name being column 0 of the Variant A row with
\* its non-breaking spaces replaced by spaces and then trimmed; and the rows
\* emitted so far are the ordinary rows, a blank-named one carrying the name of
\* the most recent Variant A row exactly when no emitted row with a name lies
\* between them.
C2_PendingName == PendingRule(TRUE)

\* C2 as stated: the same with the pending name being the trimmed column 0.
C2_PendingNameTrimmed == PendingRule(FALSE)

\* C2 witness: a Variant A row whose name holds a non-breaking space, then a
\* blank-named row, a Variant B row and another blank-named row, both filled.
C2_Witness ==
    /\ pc = "fill"
    /\ pos = 5
    /\ cinn_idx = 3
    /\ VariantA(clean_rows[2], 3) /\ contains(clean_rows[2][1], <<NBSP>>)
    /\ VariantB(clean_rows[4], 3)
    /\ filled = 2
    /\ removed = 2
    /\ current_group_name = <<<<"G", " ", "H">>>>
    /\ out[2][1] = <<"G", " ", "H">> /\ out[3][1] = <<"G", " ", "H">>

C3_Total   == <<"T", "O", "T", "A", "L", "_", "A">>
C3_Marker  == <<C3_Total, E, E, E>>
C3_MarkerA == <<C3_Total, E, E, <<"5">> >>
C3_Item    == <<E, <<"1">>, <<"2">>, <<"3">> >>

\* The pass has read all rows of a table with these data rows, Activity at index 3
C3_Folded(data) ==
    /\ pc = "fill"
    /\ pos >= Len(clean_rows)
    /\ cinn_idx = 3
    /\ slice_from(clean_rows, 1) = data

\* C3 as stated: after ["TOTAL_A","","",""] and ["","1","2","3"] the first row
\* is dropped and the second is emitted with the name "TOTAL_A".
C3_ExampleAsStated ==
    C3_Folded(<<C3_Marker, C3_Item>>) =>
        out = <<clean_rows[1], [C3_Item EXCEPT ![1] = C3_Total]>>

\* C3 (as amended): after ["TOTAL_A","","","5"] and ["","1","2","3"] the first
\* row is dropped as a Variant A row and the second is emitted with the name
\* "TOTAL_A"; ["TOTAL_A","","",""], whose Activity cell is empty, is no Variant A
\* row: it is emitted, and the row after it keeps its empty name.
C3_Example ==
    /\ C3_Folded(<<C3_MarkerA, C3_Item>>) =>
          /\ out = <<clean_rows[1], [C3_Item EXCEPT ![1] = C3_Total]>>
          /\ filled = 1 /\ removed = 1
    /\ C3_Folded(<<C3_Marker, C3_Item>>) =>
          /\ out = <<clean_rows[1], C3_Marker, C3_Item>>
          /\ filled = 0 /\ removed = 0

\* C3 witness: the pass has read ["TOTAL_A","","","5"] and ["","1","2","3"].
C3_Witness == C3_Folded(<<C3_MarkerA, C3_Item>>) /\ filled = 1

\* Whether header cell `h` matches canonical column n of wanted_patterns
\* (1 Name, 2 DebitAccount, 3 CreditAccount, 4 CostCenter, 5 Order, 6 Activity)
MatchesCanonical(h, n) == \E p \in wanted_patterns[n] : contains(normalize(h), p)

\* The 0-based indices of the header cells matched as Name
NameCols(h) == {i \in 0..(Len(h) - 1) : MatchesCanonical(h[i + 1], 1)}

\* The 0-based indices of the header cells matched as one of the five numeric columns
NumericCols(h) ==
    {i \in 0..(Len(h) - 1) : \E n \in 2..6 : MatchesCanonical(h[i + 1], n)}

\* A Name cell that, trimmed and in lower case, is the exclusion literal
IsExcludedName(v) == lower(strip(v)) = S_vyplata

\* C6: the Named-Row Excluder leaves the header and exactly the data rows whose
\* cell under the header column matched as Name is not the exclusion literal,
\* wherever that column sits.
C6_NamedRowsExcluded ==
    [][(pc = "exclude" /\ NameCols(clean_rows[1]) # {}) =>
          LET n == MinOf(NameCols(clean_rows[1]))
              Keep(r) == ~ IsExcludedName(r[n + 1])
          IN clean_rows' = <<clean_rows[1]>> \o SelectSeq(Tail(clean_rows), Keep)]_vars

\* `v` without its spaces and non-breaking spaces
WithoutSpaces(v) == LET NoSpace(c) == c \notin {" ", NBSP} IN SelectSeq(v, NoSpace)

\* C7: the Numeric Normalizer returns the header row as it is and every data
\* row with each cell of a column matched as DebitAccount, CreditAccount,
\* CostCenter, Order or Activity freed of spaces and non-breaking spaces, and
\* each cell of the Name column as it is.
C7_NumericCellsStripped ==
    [][pc = "strip" =>
          /\ Len(clean_rows') = Len(clean_rows)
          /\ clean_rows'[1] = clean_rows[1]
          /\ \A k \in 2..Len(clean_rows) :
                /\ Len(clean_rows'[k]) = Len(clean_rows[k])
                /\ \A j \in 1..Len(clean_rows[k]) :
                      /\ (j - 1) \in NumericCols(clean_rows[1])
                            => clean_rows'[k][j] = WithoutSpaces(clean_rows[k][j])
                      /\ (j - 1) \in NameCols(clean_rows[1]) \ NumericCols(clean_rows[1])
                            => clean_rows'[k][j] = clean_rows[k][j]]_vars

\* C8: projecting a projected table again leaves it as it is, whatever the
\* table projected first (ragged, or with no header cell that matches).
C8_Idempotent == [][pc = "project_again" => clean_rows' = clean_rows]_vars

\* C8 witness: a table that the first projection changed (a column dropped, a
\* short row padded) has been projected twice.
C8_Witness ==
    /\ pc = "projected"
    /\ Len(rows) >= 2
    /\ Len(clean_rows[1]) < Len(rows[1])
    /\ \E k \in 2..Len(rows) : Len(rows[k]) < Len(clean_rows[k])


(***************************************************************************)
(* The line items of the document                                          *)
(***************************************************************************)
\* The value of attribute key of an element, "" when the element lacks it
AttrOf(el, key) ==
    IF \E k \in 1..Len(el) : el[k][1] = key
    THEN el[CHOOSE k \in 1..Len(el) : el[k][1] = key][2]
    ELSE <<>>

\* The cell of a data line under the column whose header is the canonical
\* label, up to case, diacritics and surrounding blanks; "" for a short line
CellUnder(header, line, label) ==
    LET k == CHOOSE k \in 1..Len(header) : normalize_header(header[k]) = normalize_header(label)
    IN IF k <= Len(line) THEN line[k] ELSE <<>>

SideOf(el) == AttrOf(el, "strana")

\* C1: the document holds exactly 2n items for the n data rows: item i has side M
\* and the debit account of row i, item n+i has side D and the credit account of
\* row i, both carry the same amount, cost center, order and text, and no item of
\* side M follows an item of side D.
C1_TwoPassOrder ==
    root # <<>> =>
        LET items  == root[1].items
            header == xml_table[1]
            n      == Len(xml_table) - 1
        IN /\ Len(items) = 2 * n
           /\ \A i \in 1..n :
                 /\ SideOf(items[i]) = <<"M">>
                 /\ AttrOf(items[i], "ucet") = strip(CellUnder(header, xml_table[i + 1], S_UcetMD))
                 /\ SideOf(items[n + i]) = <<"D">>
                 /\ AttrOf(items[n + i], "ucet") = strip(CellUnder(header, xml_table[i + 1], S_UcetDal))
                 /\ \A key \in {"suma", "os", "eo", "text_pud"} :
                       AttrOf(items[i], key) = AttrOf(items[n + i], key)
           /\ \A a \in 1..Len(items) : \A b \in 1..Len(items) :
                 (a < b /\ SideOf(items[a]) = <<"D">>) => SideOf(items[b]) # <<"M">>

\* A document of three rows with distinct accounts has been written
C1_Witness ==
    /\ xml_pc = "done"
    /\ xml_output # <<>>
    /\ Len(xml_table) = 4
    /\ LET items == xml_output[1].items
       IN /\ Len(items) = 6
          /\ AttrOf(items[1], "ucet") # AttrOf(items[2], "ucet")
          /\ AttrOf(items[1], "ucet") # AttrOf(items[4], "ucet")
          /\ AttrOf(items[1], "ucet") # <<>>
          /\ AttrOf(items[4], "ucet") # <<>>
          /\ AttrOf(items[1], "suma") # AttrOf(items[2], "suma")
          /\ AttrOf(items[1], "suma") # <<>>


(***************************************************************************)
(* Amount normalization                                                    *)
(***************************************************************************)
\* s without its leading and trailing characters of the set ws
TrimmedOf(s, ws) ==
    LET keep == {i \in 1..Len(s) : s[i] \notin ws}
    IN IF keep = {} THEN <<>>
       ELSE SubSeq(s, MinOf(keep), MaxOf(keep))

\* s without any ordinary space
SpaceFree(s) == SelectSeq(s, LAMBDA c : c # " ")

\* The comma rule: exactly one comma and no period turns the comma into a period
CommaRule(s) ==
    IF Cardinality({i \in 1..Len(s) : s[i] = ","}) = 1 /\ \A i \in 1..Len(s) : s[i] # "."
    THEN [i \in 1..Len(s) |-> IF s[i] = "," THEN "." ELSE s[i]]
    ELSE s

AmountGiven == IF amount_in = <<>> THEN <<>> ELSE amount_in[1]

\* C11 (as amended): to_amount returns the value trimmed of leading and trailing
\* whitespace (non-breaking spaces included), freed of every ordinary space, its
\* comma turned into a period when it has exactly one comma and no period, and
\* otherwise unchanged; None gives the empty string.
C11_Amount ==
    amount_pc = "returned" =>
        amount_out = CommaRule(SpaceFree(TrimmedOf(AmountGiven, {" ", NBSP})))

\* C11 as stated: to_amount returns the value freed of every space, its comma
\* turned into a period when it has exactly one comma and no period, and
\* otherwise unchanged.
C11_AmountAsStated ==
    amount_pc = "returned" => amount_out = CommaRule(SpaceFree(AmountGiven))

\* C11 witness: "1 234,56" has been normalized to "1234.56"
C11_Witness ==
    /\ amount_pc = "returned"
    /\ amount_in = <<A_Thousands>>
    /\ amount_out = <<"1", "2", "3", "4", ".", "5", "6">>


(***************************************************************************)
(* Attribute policy of the serializer                                      *)
(***************************************************************************)
\* The position of key in the fixed order
PlaceIn(order, key) == CHOOSE k \in 1..Len(order) : order[k] = key

HasAttr(el, key) == \E k \in 1..Len(el) : el[k][1] = key

\* The trimmed value that item j of a document of n rows is given for key
ItemValue(j, n, key) ==
    LET line  == xml_table[(IF j <= n THEN j ELSE j - n) + 1]
        under(label) == TrimmedOf(CellUnder(xml_table[1], line, label), {" ", NBSP})
    IN CASE key = "suma"     -> CommaRule(SpaceFree(under(S_Cinn)))
         [] key = "ucet"     -> IF j <= n THEN under(S_UcetMD) ELSE under(S_UcetDal)
         [] key = "strana"   -> IF j <= n THEN <<"M">> ELSE <<"D">>
         [] key = "os"       -> under(S_Stred)
         [] key = "eo"       -> under(S_Zak)
         [] key = "text_pud" -> under(S_Nazov)

\* The policy on one element: its attributes follow the fixed order, each key at
\* most once; an attribute carries the trimmed value; it is there exactly when
\* that value is not empty, or always with keep_empty
FollowsPolicy(el, order, value) ==
    /\ \A k \in 1..Len(el) : \E o \in 1..Len(order) : order[o] = el[k][1]
    /\ \A k \in 1..Len(el) : \A l \in 1..Len(el) :
          k < l => PlaceIn(order, el[k][1]) < PlaceIn(order, el[l][1])
    /\ \A o \in 1..Len(order) :
          /\ HasAttr(el, order[o]) <=> (keep_empty \/ value[order[o]] # <<>>)
          /\ HasAttr(el, order[o]) => AttrOf(el, order[o]) = value[order[o]]

\* C12: on the document element and on every line item the attributes set are a
\* subsequence of the fixed order; without keep_empty an attribute is set if and
\* only if its trimmed value is not empty; with keep_empty all six are set, the
\* empty ones with an empty value.
C12_AttributePolicy ==
    root # <<>> =>
        LET n == Len(xml_table) - 1
        IN /\ FollowsPolicy(root[1].attrs,
                            <<"cislo_ud", "datum_ud", "mandant_id", "druh_ud", "typ_ud", "text_ud">>,
                            [key \in DOMAIN doc_attrs |-> TrimmedOf(doc_attrs[key], {" ", NBSP})])
           /\ \A j \in 1..Len(root[1].items) :
                 FollowsPolicy(root[1].items[j],
                               <<"suma", "ucet", "strana", "os", "eo", "text_pud">>,
                               [key \in {"suma", "ucet", "strana", "os", "eo", "text_pud"} |->
                                   ItemValue(j, n, key)])

\* C12 witness: a document written without keep_empty whose document element
\* lacks the blank typ_ud and whose first item lacks the empty os and eo but
\* carries suma, ucet and strana
C12_Witness ==
    /\ xml_pc = "done"
    /\ ~ keep_empty
    /\ doc_attrs["typ_ud"] = <<" ">>
    /\ ~ HasAttr(xml_output[1].attrs, "typ_ud")
    /\ HasAttr(xml_output[1].attrs, "cislo_ud")
    /\ Len(xml_output[1].items) >= 2
    /\ ~ HasAttr(xml_output[1].items[1], "os")
    /\ ~ HasAttr(xml_output[1].items[1], "eo")
    /\ HasAttr(xml_output[1].items[1], "suma")
    /\ HasAttr(xml_output[1].items[1], "ucet")
    /\ HasAttr(xml_output[1].items[1], "strana")


(***************************************************************************)
(* Required columns of the document assembly                               *)
(***************************************************************************)
\* The canonical labels, in the order Name, DebitAccount, CreditAccount,
\* CostCenter, Order, Activity
CanonicalLabels == <<S_Nazov, S_UcetMD, S_UcetDal, S_Stred, S_Zak, S_Cinn>>

\* Canonical column k is in the header: a cell matches the column's patterns,
\* the rule by which the Column Projector keeps a column
PresentIn(header, k) == \E i \in 1..Len(header) : MatchesCanonical(header[i], k)

RECURSIVE AbsentFrom(_, _)
AbsentFrom(header, k) ==
    IF k > Len(CanonicalLabels) THEN <<>>
    ELSE (IF PresentIn(header, k) THEN <<>> ELSE <<CanonicalLabels[k]>>)
         \o AbsentFrom(header, k + 1)

\* C13: once the required columns have been looked for in the header of a
\* projected table, either a canonical column is absent, main has stopped with
\* the error that lists exactly the absent columns and nothing is built or
\* written, or all six are present and cols names a header cell for each.
C13_RequiredColumns ==
    (xml_headers # <<>> /\ xml_pc # "ensure") =>
        IF AbsentFrom(xml_headers, 1) # <<>>
        THEN /\ xml_pc = "exit"
             /\ xml_error = <<[kind |-> "missing_columns",
                                missing |-> AbsentFrom(xml_headers, 1)]>>
             /\ root = <<>>
             /\ xml_output = <<>>
        ELSE /\ xml_pc \in {"build", "write", "done"}
             /\ xml_error = <<>>
             /\ DOMAIN cols = {"nazov", "ucet_md", "ucet_dal", "stred", "zak", "cinn"}
             /\ \A key \in DOMAIN cols : \E i \in 1..Len(xml_headers) : cols[key] = xml_headers[i]


(***************************************************************************)
(* Frame and stability of the Summary Folder pass                          *)
(***************************************************************************)
\* The data rows, numbered from 1, among the first n of table t that are
\* neither Variant A nor Variant B
OrdinaryAmong(t, c, n) == {i \in 1..n : IsOrdinary(t[i + 1], c)}

\* Emitted row o is input row r, but for a blank column 0 that was given a name
SameButName(o, r) ==
    /\ Len(o) = Len(r)
    /\ \A k \in 2..Len(r) : o[k] = r[k]
    /\ o[1] = r[1] \/ (strip(r[1]) = <<>> /\ strip(o[1]) # <<>>)

\* C15: throughout the pass over table `rows`, and so for what it returns, out
\* starts with the input header, its data rows are in the input's order exactly
\* the rows read so far that are neither Variant A nor Variant B, each equal to
\* its input row except for a column 0 that was filled, the input rows are as
\* they were, and removed plus the rows emitted is the number of rows read.
C15_FrameAndOrder ==
    pc = "fill" =>
        LET K == OrdinaryAmong(rows, cinn_idx, pos - 1)
        IN /\ clean_rows = rows
           /\ out[1] = rows[1]
           /\ Len(out) = 1 + Cardinality(K)
           /\ \A j \in 1..Cardinality(K) : SameButName(out[j + 1], rows[Nth(K, j) + 1])
           /\ Cardinality({j \in 1..Cardinality(K) : out[j + 1] # rows[Nth(K, j) + 1]}) = filled
           /\ removed + (Len(out) - 1) = pos - 1

\* C15 witness: the pass has read a whole table of four data rows, dropped a
\* summary row from between two ordinary rows, filled a name and emitted two
\* different rows unchanged
C15_Witness ==
    /\ pc = "fill"
    /\ pos = Len(rows)
    /\ Len(rows) = 5
    /\ removed >= 1
    /\ filled >= 1
    /\ \E a \in 2..Len(rows) : \E b \in 2..Len(rows) : \E d \in 2..Len(rows) :
          /\ a < d /\ d < b
          /\ IsOrdinary(rows[a], cinn_idx) /\ IsOrdinary(rows[b], cinn_idx)
          /\ ~ IsOrdinary(rows[d], cinn_idx)
          /\ rows[a] # rows[b]
          /\ \E i \in 2..Len(out) : \E j \in 2..Len(out) :
                i < j /\ out[i] = rows[a] /\ out[j] = rows[b]


(***************************************************************************)
(* Output files are written only by runs that succeeded                    *)
(***************************************************************************)
\* The chosen file as the internal cleaning reads it: with the dialect sniffed
\* for it, or at ';'
ChosenAsRead ==
    reader_rows(lines_of(csv_path[1]), sniff_dialect(lines_of(csv_path[1]), csv_crlf, ";"))

\* The lines of the chosen file from line i on
ChosenFrom(i) == SubSeq(csv_path[1], i, Len(csv_path[1]))

\* The cleaning step of run_conversion has completed with the given rows as
\* its cleaned file: clean_csv ran to its end and wrote them, and they are not
\* empty, or the internal cleaning found a line with the six required headers
\* and wrote the chosen file from that line on, and no exception ended the step
CleaningCompleted(cleaned) ==
    /\ pc # "raised"
    /\ cleaned # <<>>
    /\ IF ran_cleaner
       THEN pc = "done" /\ output = <<cleaned>>
       ELSE \E i \in 1..Len(csv_path[1]) :
               /\ cleaned = ChosenFrom(i)
               /\ LET line == ChosenAsRead[i]
                  IN \A k \in 1..Len(REQUIRED_HEADERS) :
                        \E c \in 1..Len(line) :
                           normalize_header(line[c]) = normalize_header(REQUIRED_HEADERS[k])

\* The conversion step has completed on the cleaned file of the given rows:
\* the converter took every entry field for the value of its option and read
\* the file with the very delimiter the file was written with
ConversionCompleted(cleaned) ==
    /\ xml_pc = "done"
    /\ xml_error = <<>>
    /\ ~ parse_args_exits(doc_vars)
    /\ xml_table = sniffed_table(cleaned, ran_cleaner)
    /\ sniff_dialect(lines_of(cleaned), ran_cleaner, ",").delimiter = ";"
    /\ root # <<>>
    /\ xml_output = root

\* What the cleaned file of this call can have been: what clean_csv wrote, or
\* the chosen file from one of its lines on
CleanedFiles ==
    (IF output = <<>> THEN {} ELSE {output[1]})
    \cup (IF csv_path = <<>> THEN {} ELSE {ChosenFrom(i) : i \in 1..Len(csv_path[1])})

\* C14: clean_csv has written no file when the header was not found;
\* create_xml_file.main has written no file when it stopped for missing columns
\* or attributes or at its arguments; a script's file is there only when the
\* script ran to its end; cleaned.csv, while it is there, is the file of a
\* completed cleaning; and the file the user chose is written only when both
\* the cleaning and the conversion completed, on one and the same cleaned
\* file, never after an error of either.
C14_OutputOnlyAfterSuccess ==
    /\ pc = "raised" => output = <<>>
    /\ output # <<>> => pc = "done"
    /\ xml_pc = "exit" => (xml_error # <<>> /\ root = <<>> /\ xml_output = <<>>)
    /\ xml_pc = "usage" => (root = <<>> /\ xml_output = <<>>)
    /\ xml_output # <<>> => xml_pc = "done"
    /\ cleaned_csv # <<>> => CleaningCompleted(cleaned_csv[1])
    /\ out_file # <<>> =>
          /\ \E cleaned \in CleanedFiles :
                CleaningCompleted(cleaned) /\ ConversionCompleted(cleaned)
          /\ out_file = xml_output
          /\ shown = <<"info">>
    /\ shown \in {<<"warning">>, <<"error">>, <<"unexpected">>} => out_file = <<>>

\* C14 witness: the user's file has been written from a table that clean_csv
\* cleaned of a leading row and of a summary row
C14_Witness ==
    /\ app_pc = "leaving"
    /\ out_file # <<>>
    /\ ran_cleaner
    /\ header_index = 1
    /\ removed_summaries = 1
    /\ Len(out_file[1].items) = 2

=============================================================================
